---- MODULE Spec2Model ----
(***************************************************************************)
(* A model of the insight-readiness-analyzer correction engine:           *)
(*   - ira/reporting/audit.py      AuditLogger (log, set_context, close)  *)
(*   - ira/correction/*.py         the five correction phases             *)
(*   - ira/correction/pipeline.py  run_correction_pipeline                *)
(*                                                                         *)
(* Two specifications are given.  AuditSpec drives an AuditLogger through *)
(* arbitrary sequences of API calls.  Spec runs the correction pipeline   *)
(* on a table and a policy drawn from bounded sets, logging to the same   *)
(* AuditLogger model.                                                      *)
(***************************************************************************)
EXTENDS Integers, Sequences, FiniteSets, TLC

VARIABLES
    logger,      \* the AuditLogger object (fields named as in audit.py)
    accepted,    \* history: the events log() accepted, in call order
    raised,      \* whether the last API call raised
    afterClose,  \* number of API calls made since the first close()
    closes,      \* number of close() calls made
    pc,          \* position of run_correction_pipeline
    run,         \* 1: first run, 2: re-run on the first run's output
    policy,      \* the policy dictionary
    input,       \* the caller's table as it is when the first run is called
    df,          \* the pipeline's working table
    out1,        \* the table returned by the first run
    iterOrder,   \* iteration order of the set non_negative_columns
    caller,      \* what the table object passed to this run holds now
    shared,      \* whether df is that very object
    passed,      \* what the table object passed to the last phase holds now
    profile,     \* the profile given to calculate_readiness_score
    scored       \* what calculate_readiness_score returned

vars == <<logger, accepted, raised, afterClose, closes, pc, run, policy, input, df,
          out1, iterOrder, caller, shared, passed, profile, scored>>

pipeVars == <<pc, run, policy, input, df, out1, iterOrder, caller, shared, passed,
              profile, scored>>

(***************************************************************************)
(* Bounds of the model.                                                    *)
(***************************************************************************)
MaxVaried == 2       \* log calls that may choose any event; later ones repeat
MaxLogged == 27      \* accepted events per logger (beyond the sample cap)
MaxAfterClose == 1   \* API calls explored after the first close()

(***************************************************************************)
(* Python values.  A cell / event value is a tagged record:               *)
(*   null (None, NaN, pd.NA), str (a sequence of characters),             *)
(*   int (n), num (a float, held exactly as the rational n/d, d > 0, in   *)
(*   lowest terms), bool (n = 0 or 1), and repr (the text str() gives for *)
(*   the float n/d, which float() reads back as that float).              *)
(***************************************************************************)
Null == [t |-> "null", s |-> <<>>, n |-> 0, d |-> 1]
Str(cs) == [t |-> "str", s |-> cs, n |-> 0, d |-> 1]
Num(a, b) == [t |-> "num", s |-> <<>>, n |-> a, d |-> b]
IntV(a) == [t |-> "int", s |-> <<>>, n |-> a, d |-> 1]
ReprOf(a, b) == [t |-> "repr", s |-> <<>>, n |-> a, d |-> b]
Bool(b) == [t |-> "bool", s |-> <<>>, n |-> IF b THEN 1 ELSE 0, d |-> 1]
Ts(date) == [t |-> "ts", s |-> date, n |-> 0, d |-> 1]

\* A dictionary key that is not present.
Absent == "<absent>"
\* Python's None where a string is expected (a timestamp).
None == "None"

(***************************************************************************)
(* Python's ordering of str, restricted to the strings the model uses:    *)
(* the sequence lists them in code-point order (sorted() of the list).    *)
(***************************************************************************)
PyStrOrder ==
    << "",
       "Dropped rows due to validity violations",
       "__row__",
       "_row_id",
       "a",
       "b",
       "invalid_numeric",
       "missing_critical_column",
       "parsing_failure",
       "row_dropped",
       "standardization_change",
       "trim_whitespace",
       "validity_drop" >>

RECURSIVE IndexOf(_, _, _)
IndexOf(seq, x, i) ==
    IF i > Len(seq) THEN 0
    ELSE IF seq[i] = x THEN i ELSE IndexOf(seq, x, i + 1)

StrRank(s) == IndexOf(PyStrOrder, s, 1)

\* Lexicographic order of two sequences of integers (Python list/tuple order).
RECURSIVE IntSeqLt(_, _)
IntSeqLt(a, b) ==
    IF b = <<>> THEN FALSE
    ELSE IF a = <<>> THEN TRUE
    ELSE IF Head(a) # Head(b) THEN Head(a) < Head(b)
    ELSE IntSeqLt(Tail(a), Tail(b))

(***************************************************************************)
(* Audit events.  An event is a dictionary; a key that is missing holds   *)
(* Absent (AbsentReason for the reason, which is the formatted code plus  *)
(* the numbers formatted into it).                                         *)
(***************************************************************************)
Reason(code, args) == [code |-> code, args |-> args]
AbsentReason == Reason(Absent, <<>>)

Event(ts, etype, reason, section, col, rid, old, new) ==
    [timestamp |-> ts, event_type |-> etype, reason |-> reason,
     policy_section |-> section, column |-> col, row_id |-> rid,
     old_value |-> old, new_value |-> new]

\* audit.py:44-47  required - event.keys()
MissingRequired(event) ==
    {k \in {"timestamp", "event_type", "reason", "policy_section"} :
        CASE k = "timestamp" -> event.timestamp = Absent
          [] k = "event_type" -> event.event_type = Absent
          [] k = "reason" -> event.reason = AbsentReason
          [] OTHER -> event.policy_section = Absent}

\* audit.py:148-152  the aggregation key of an event
AggKey(event) ==
    [event_type |-> event.event_type,
     column |-> IF event.column = Absent THEN "" ELSE event.column,
     reason |-> event.reason]

\* Python's tuple order on (event_type, column, reason).
KeyLt(k1, k2) ==
    IF k1.event_type # k2.event_type
    THEN StrRank(k1.event_type) < StrRank(k2.event_type)
    ELSE IF k1.column # k2.column
    THEN StrRank(k1.column) < StrRank(k2.column)
    ELSE IF k1.reason.code # k2.reason.code
    THEN StrRank(k1.reason.code) < StrRank(k2.reason.code)
    ELSE IntSeqLt(k1.reason.args, k2.reason.args)

\* Variant of the key order of close(): keys taken in descending order.
RECURSIVE KeysDescending(_)
KeysDescending(S) ==
    IF S = {} THEN <<>>
    ELSE LET m == CHOOSE k \in S : \A o \in S \ {k} : KeyLt(o, k)
         IN <<m>> \o KeysDescending(S \ {m})

\* sorted(self._summary_counts.keys())
RECURSIVE SortedKeys(_)
SortedKeys(S) ==
    IF S = {} THEN <<>>
    ELSE LET m == CHOOSE k \in S : \A o \in S \ {k} : KeyLt(k, o)
         IN <<m>> \o SortedKeys(S \ {m})

RECURSIVE SumCounts(_, _)
SumCounts(counts, S) ==
    IF S = {} THEN 0
    ELSE LET k == CHOOSE x \in S : TRUE
         IN counts[k] + SumCounts(counts, S \ {k})

(***************************************************************************)
(* AuditLogger (audit.py).                                                 *)
(***************************************************************************)
max_samples_per_group == 25

\* audit.py:12-30  __init__ (the file is opened by _ensure_file_open)
NewLogger(detail) ==
    [detail |-> detail, opened |-> TRUE, closed |-> FALSE,
     summary_counts |-> <<>>, summary_samples |-> <<>>,
     context |-> <<>>, timestamp_start |-> None, timestamp_end |-> None,
     file |-> <<>>]

\* Variant of _write_line without the closed-file guard.
WriteLineUnguarded(lg, line) == [lg EXCEPT !.file = Append(@, line)]

\* audit.py:137-143  _write_line: nothing is written to a closed file
WriteLine(lg, line) ==
    IF ~lg.closed THEN [lg EXCEPT !.file = Append(@, line)] ELSE lg

\* Variant of _aggregate whose sample cap is off by one (<= for <).
AggregateOffByOne(lg, event) ==
    LET key == [event_type |-> event.event_type,
                column |-> IF event.column = Absent THEN "" ELSE event.column,
                reason |-> event.reason]
        seen == key \in DOMAIN lg.summary_counts
        cnt == IF seen THEN lg.summary_counts[key] ELSE 0
        smp == IF seen THEN lg.summary_samples[key] ELSE <<>>
        smp2 == IF Len(smp) <= max_samples_per_group THEN Append(smp, event) ELSE smp
    IN [lg EXCEPT
          !.summary_counts = [k \in DOMAIN @ \cup {key} |->
                                IF k = key THEN cnt + 1 ELSE @[k]],
          !.summary_samples = [k \in DOMAIN @ \cup {key} |->
                                IF k = key THEN smp2 ELSE @[k]]]

\* audit.py:145-156  _aggregate
Aggregate(lg, event) ==
    LET key == AggKey(event)
        seen == key \in DOMAIN lg.summary_counts
        cnt == IF seen THEN lg.summary_counts[key] ELSE 0
        smp == IF seen THEN lg.summary_samples[key] ELSE <<>>
        smp2 == IF Len(smp) < max_samples_per_group THEN Append(smp, event) ELSE smp
    IN [lg EXCEPT
          !.summary_counts = [k \in DOMAIN @ \cup {key} |->
                                IF k = key THEN cnt + 1 ELSE @[k]],
          !.summary_samples = [k \in DOMAIN @ \cup {key} |->
                                IF k = key THEN smp2 ELSE @[k]]]

\* Variant of log whose detailed line is appended whatever the file's state.
LogAcceptedAppends(lg, event) ==
    LET l1 == [lg EXCEPT
                 !.timestamp_start = IF @ = None THEN event.timestamp ELSE @,
                 !.timestamp_end = event.timestamp]
        l2 == Aggregate(l1, event)
    IN IF lg.detail = "detailed"
       THEN [l2 EXCEPT !.file = Append(@, [type |-> "event", event |-> event])]
       ELSE l2

\* audit.py:39-58  log, for an event that passes the required-key check
LogAccepted(lg, event) ==
    LET l1 == [lg EXCEPT
                 !.timestamp_start = IF @ = None THEN event.timestamp ELSE @,
                 !.timestamp_end = event.timestamp]
        l2 == Aggregate(l1, event)
    IN IF lg.detail = "detailed"
       THEN WriteLine(l2, [type |-> "event", event |-> event])
       ELSE l2

\* audit.py:39-58  log: raises ValueError before touching any state
LogRaises(event) == MissingRequired(event) # {}

\* Variant of log that aggregates before it validates the event.
LoggerLogAggregatesFirst(lg, event) ==
    IF LogRaises(event)
    THEN [lg EXCEPT !.timestamp_end = event.timestamp]
    ELSE LogAccepted(lg, event)

LoggerLog(lg, event) == IF LogRaises(event) THEN lg ELSE LogAccepted(lg, event)

\* audit.py:108-115  set_context (numpy scalars and Paths are made JSON-safe)
JsonSafeContext(v) ==
    IF v.kind \in {"numpy", "path"} THEN [kind |-> "py", v |-> v.v] ELSE v
LoggerSetContext(lg, k, v) ==
    [lg EXCEPT !.context = [x \in DOMAIN @ \cup {k} |->
                              IF x = k THEN JsonSafeContext(v) ELSE @[x]]]

\* audit.py:162-179  the summary_aggregate records, in sorted key order
RECURSIVE WriteAggregates(_, _)
WriteAggregates(lg, keys) ==
    IF keys = <<>> THEN lg
    ELSE LET key == Head(keys)
         IN WriteAggregates(
              WriteLine(lg, [type |-> "summary_aggregate",
                             event_type |-> key.event_type,
                             column |-> key.column,
                             reason |-> key.reason,
                             count |-> lg.summary_counts[key],
                             samples |-> lg.summary_samples[key]]),
              Tail(keys))

\* Variant of the footer whose total counts the aggregate keys, not the events.
FooterCountsKeys(lg) ==
    LET keys == DOMAIN lg.summary_counts
        etypes == {k.event_type : k \in keys}
    IN [type |-> "job_summary",
        detail |-> lg.detail,
        total_events |-> Cardinality(keys),
        event_type_counts |->
            [t \in etypes |-> Cardinality({k \in keys : k.event_type = t})],
        unique_columns_touched |->
            Cardinality({k.column : k \in {x \in keys : x.column \notin {"", "__row__"}}}),
        timestamp_start |-> lg.timestamp_start,
        timestamp_end |-> lg.timestamp_end,
        job_context |-> lg.context]

\* Variant of the footer that counts the row-level sentinel as a column.
FooterCountsSentinel(lg) ==
    LET keys == DOMAIN lg.summary_counts
        etypes == {k.event_type : k \in keys}
    IN [type |-> "job_summary",
        detail |-> lg.detail,
        total_events |-> SumCounts(lg.summary_counts, keys),
        event_type_counts |->
            [t \in etypes |->
               SumCounts(lg.summary_counts, {k \in keys : k.event_type = t})],
        unique_columns_touched |->
            Cardinality({k.column : k \in {x \in keys : x.column # ""}}),
        timestamp_start |-> lg.timestamp_start,
        timestamp_end |-> lg.timestamp_end,
        job_context |-> lg.context]

\* audit.py:181-202  the job_summary footer, built from the aggregate
Footer(lg) ==
    LET keys == DOMAIN lg.summary_counts
        etypes == {k.event_type : k \in keys}
    IN [type |-> "job_summary",
        detail |-> lg.detail,
        total_events |-> SumCounts(lg.summary_counts, keys),
        event_type_counts |->
            [t \in etypes |->
               SumCounts(lg.summary_counts, {k \in keys : k.event_type = t})],
        unique_columns_touched |->
            Cardinality({k.column : k \in {x \in keys : x.column \notin {"", "__row__"}}}),
        timestamp_start |-> lg.timestamp_start,
        timestamp_end |-> lg.timestamp_end,
        job_context |-> lg.context]

\* Variant of close without the _opened / file.closed guards.
LoggerCloseUnguarded(lg) ==
    LET l1 == IF lg.detail = "summary" /\ ~lg.closed
              THEN WriteAggregates(lg, SortedKeys(DOMAIN lg.summary_counts))
              ELSE lg
    IN [l1 EXCEPT !.file = Append(@, Footer(l1)),
                  !.closed = TRUE, !.opened = FALSE]

\* audit.py:158-208  close
LoggerClose(lg) ==
    IF ~lg.opened THEN lg
    ELSE LET l1 == IF lg.detail = "summary" /\ ~lg.closed
                   THEN WriteAggregates(lg, SortedKeys(DOMAIN lg.summary_counts))
                   ELSE lg
             l2 == WriteLine(l1, Footer(l1))
         IN [l2 EXCEPT !.closed = TRUE, !.opened = FALSE]

(***************************************************************************)
(* Characters and strings.  A string is a sequence of characters; the     *)
(* characters with no printable form are written as tokens.               *)
(***************************************************************************)
Digits == <<"0", "1", "2", "3", "4", "5", "6", "7", "8", "9">>
UpperChars ==
    <<"A", "B", "C", "D", "E", "F", "G", "H", "I", "J", "K", "L", "M",
      "N", "O", "P", "Q", "R", "S", "T", "U", "V", "W", "X", "Y", "Z">>
LowerChars ==
    <<"a", "b", "c", "d", "e", "f", "g", "h", "i", "j", "k", "l", "m",
      "n", "o", "p", "q", "r", "s", "t", "u", "v", "w", "x", "y", "z">>
\* The model's characters in code-point order.
CharOrder ==
    <<"<NUL>", "\t", "\n", " ", "$", "%", "(", ")", "+", ",", "-", ".", "/">>
    \o Digits \o UpperChars \o <<"_">> \o LowerChars \o <<"<NBSP>", "<ZWSP>">>
\* str.isspace
Whitespace == {"\t", "\n", " ", "<NBSP>"}
\* the characters removed by strip_nonprinting's pattern
ControlChars == {"<NUL>", "<ZWSP>"}

IsDigit(c) == IndexOf(Digits, c, 1) # 0
DigitVal(c) == IndexOf(Digits, c, 1) - 1
IsLetter(c) == IndexOf(UpperChars, c, 1) # 0 \/ IndexOf(LowerChars, c, 1) # 0
Lower(c) ==
    LET i == IndexOf(UpperChars, c, 1) IN IF i = 0 THEN c ELSE LowerChars[i]
Upper(c) ==
    LET i == IndexOf(LowerChars, c, 1) IN IF i = 0 THEN c ELSE UpperChars[i]
LowerStr(cs) == [i \in 1..Len(cs) |-> Lower(cs[i])]
UpperStr(cs) == [i \in 1..Len(cs) |-> Upper(cs[i])]

\* str.title
RECURSIVE TitleFrom(_, _)
TitleFrom(cs, prevCased) ==
    IF cs = <<>> THEN <<>>
    ELSE LET c == Head(cs)
         IN <<IF ~IsLetter(c) THEN c ELSE IF prevCased THEN Lower(c) ELSE Upper(c)>>
            \o TitleFrom(Tail(cs), IsLetter(c))
TitleStr(cs) == TitleFrom(cs, FALSE)

\* str.lstrip, str.rstrip, str.strip
RECURSIVE LStrip(_)
LStrip(cs) ==
    IF cs # <<>> /\ Head(cs) \in Whitespace THEN LStrip(Tail(cs)) ELSE cs
RECURSIVE RStrip(_)
RStrip(cs) ==
    IF cs # <<>> /\ cs[Len(cs)] \in Whitespace
    THEN RStrip(SubSeq(cs, 1, Len(cs) - 1))
    ELSE cs
Strip(cs) == RStrip(LStrip(cs))

\* re.sub(r'\s+', ' ', s)
RECURSIVE CollapseWs(_)
CollapseWs(cs) ==
    IF cs = <<>> THEN <<>>
    ELSE IF Head(cs) \in Whitespace THEN <<" ">> \o CollapseWs(LStrip(cs))
    ELSE <<Head(cs)>> \o CollapseWs(Tail(cs))

\* s.replace(c, "") for every character c of the set
RemoveChars(cs, set) == LET Keep(c) == c \notin set IN SelectSeq(cs, Keep)
HasChar(cs, c) == \E i \in 1..Len(cs) : cs[i] = c
StartsWith(cs, pre) == Len(pre) <= Len(cs) /\ SubSeq(cs, 1, Len(pre)) = pre
EndsWith(cs, suf) ==
    Len(suf) <= Len(cs) /\ SubSeq(cs, Len(cs) - Len(suf) + 1, Len(cs)) = suf
Contains(cs, sub) ==
    \E i \in 1..(Len(cs) - Len(sub) + 1) : SubSeq(cs, i, i + Len(sub) - 1) = sub

\* Python's order on str
CharRank(c) == IndexOf(CharOrder, c, 1)
RECURSIVE CharsLt(_, _)
CharsLt(a, b) ==
    IF b = <<>> THEN FALSE
    ELSE IF a = <<>> THEN TRUE
    ELSE IF Head(a) # Head(b) THEN CharRank(Head(a)) < CharRank(Head(b))
    ELSE CharsLt(Tail(a), Tail(b))

\* str(n) for an integer n
RECURSIVE NatChars(_)
NatChars(n) ==
    IF n < 10 THEN <<Digits[n + 1]>> ELSE NatChars(n \div 10) \o <<Digits[(n % 10) + 1]>>
IntChars(n) == IF n < 0 THEN <<"-">> \o NatChars(0 - n) ELSE NatChars(n)

(***************************************************************************)
(* Rational arithmetic for the float values.                              *)
(***************************************************************************)
Abs(x) == IF x < 0 THEN 0 - x ELSE x
RECURSIVE GCD(_, _)
GCD(x, y) == IF y = 0 THEN x ELSE GCD(y, x % y)
Norm(a, b) ==
    LET g == GCD(Abs(a), Abs(b))
        sgn == IF b < 0 THEN 0 - 1 ELSE 1
    IN IF a = 0 THEN Num(0, 1) ELSE Num(sgn * (a \div g), sgn * (b \div g))
IsNumber(v) == v.t \in {"int", "num", "bool"}
NumLt(v, w) == v.n * w.d < w.n * v.d
NumEq(v, w) == v.n * w.d = w.n * v.d

\* str(x) for a cell value x
PyStr(v) ==
    CASE v.t = "str" -> v
      [] v.t = "int" -> Str(IntChars(v.n))
      [] v.t = "bool" -> Str(IF v.n = 1 THEN <<"T", "r", "u", "e">>
                                         ELSE <<"F", "a", "l", "s", "e">>)
      [] v.t = "num" -> ReprOf(v.n, v.d)
      [] v.t = "repr" -> v
      [] v.t = "ts" -> Str(v.s \o <<" ", "0", "0", ":", "0", "0", ":", "0", "0">>)
      [] OTHER -> Str(<<"n", "a", "n">>)
\* str(x) if pd.notna(x) else None
StrOrNone(v) == IF v.t = "null" THEN Null ELSE PyStr(v)

(***************************************************************************)
(* AuditSpec: an AuditLogger driven by arbitrary API calls.               *)
(* The events are shaped as the callers in ira/correction shape them; the *)
(* last four lack one mandatory key each.                                  *)
(***************************************************************************)
\* the old_value of a row_dropped event
RowPresent == Str(<<"r", "o", "w", "_", "p", "r", "e", "s", "e", "n", "t">>)

EvTrim1 ==
    Event("t1", "standardization_change", Reason("trim_whitespace", <<>>),
          "standardization.global_trim_whitespace", "b", IntV(1),
          Str(<<" ", "x">>), Str(<<"x">>))
EvTrim2 ==
    Event("t2", "standardization_change", Reason("trim_whitespace", <<>>),
          "standardization.global_trim_whitespace", "b", IntV(2),
          Str(<<"x", " ">>), Str(<<"x">>))
EvRowDropped ==
    Event("t1", "row_dropped", Reason("missing_critical_column", <<>>),
          "missing_data.drop_if_missing_critical", "__row__", IntV(2),
          RowPresent, Null)
EvValidityDrop ==
    Event(None, "validity_drop", Reason("Dropped rows due to validity violations", <<1>>),
          "validity_rules", Absent, Null, Null, Null)

GoodEvents == {EvTrim1, EvTrim2, EvRowDropped, EvValidityDrop}
BadEvents ==
    { [EvTrim1 EXCEPT !.timestamp = Absent],
      [EvTrim1 EXCEPT !.event_type = Absent],
      [EvTrim1 EXCEPT !.reason = AbsentReason],
      [EvRowDropped EXCEPT !.policy_section = Absent] }
AuditEvents == GoodEvents \cup BadEvents

ContextKeys == {"rows_in"}
ContextValues == {[kind |-> "py", v |-> "10"], [kind |-> "numpy", v |-> "9"]}

\* The pipeline's variables, parked while the logger is driven directly.
PipeIdle ==
    /\ pc = "idle"
    /\ run = 0
    /\ policy = <<>>
    /\ input = <<>>
    /\ df = <<>>
    /\ out1 = <<>>
    /\ caller = <<>>
    /\ shared = FALSE
    /\ passed = <<>>
    /\ iterOrder = <<>>
    /\ profile = <<>>
    /\ scored = <<>>

AuditInit ==
    /\ \E detail \in {"summary", "detailed"} : logger = NewLogger(detail)
    /\ accepted = <<>>
    /\ raised = FALSE
    /\ afterClose = 0
    /\ closes = 0
    /\ PipeIdle

\* An API call may be made while the logger is open, and a bounded number
\* of times after it has been closed.
MayCall == logger.opened \/ afterClose < MaxAfterClose
CountCall == afterClose' = IF logger.opened THEN afterClose ELSE afterClose + 1

\* logger.log(event)
ALog(event) ==
    /\ MayCall
    /\ \/ LogRaises(event)
       \/ /\ Len(accepted) < MaxLogged
          /\ \/ Len(accepted) < MaxVaried
             \/ /\ accepted # <<>>
                /\ event = accepted[Len(accepted)]
    /\ raised' = LogRaises(event)
    /\ accepted' = IF LogRaises(event) THEN accepted ELSE Append(accepted, event)
    /\ logger' = LoggerLog(logger, event)
    /\ CountCall
    /\ UNCHANGED <<closes, pipeVars>>

\* logger.set_context(k=v)
ASetContext(k, v) ==
    /\ MayCall
    /\ logger' = LoggerSetContext(logger, k, v)
    /\ raised' = FALSE
    /\ CountCall
    /\ UNCHANGED <<accepted, closes, pipeVars>>

\* logger.close()
AClose ==
    /\ MayCall
    /\ logger' = LoggerClose(logger)
    /\ raised' = FALSE
    /\ closes' = closes + 1
    /\ CountCall
    /\ UNCHANGED <<accepted, pipeVars>>

AuditNext ==
    \/ \E event \in AuditEvents : ALog(event)
    \/ \E k \in ContextKeys, v \in ContextValues : ASetContext(k, v)
    \/ AClose

AuditSpec == AuditInit /\ [][AuditNext]_vars

(***************************************************************************)
(* Properties of the AuditLogger (checked under AuditSpec).               *)
(***************************************************************************)
LineTypes(file) == [i \in 1..Len(file) |-> file[i].type]
FooterCount(file) == Cardinality({i \in 1..Len(file) : file[i].type = "job_summary"})
LineKey(line) ==
    [event_type |-> line.event_type, column |-> line.column, reason |-> line.reason]
KeysOf(events) == {AggKey(events[i]) : i \in 1..Len(events)}

C7_CloseIdempotent ==
    [][(~logger.opened /\ AClose) =>
          /\ logger' = logger
          /\ ~raised'
          /\ FooterCount(logger'.file) = 1]_vars

C7_Witness ==
    /\ closes >= 2
    /\ accepted # <<>>
    /\ FooterCount(logger.file) = 1

\* C8: log() of an event lacking a mandatory key raises, and the logger
\* (counts, samples, start/end timestamps, file) is left unchanged.
C8_RejectedEventLeavesNoTrace ==
    [][(\E event \in AuditEvents : MissingRequired(event) # {} /\ ALog(event)) =>
          /\ raised'
          /\ logger' = logger
          /\ accepted' = accepted]_vars

C8_Witness ==
    /\ raised
    /\ accepted # <<>>
    /\ logger.opened

\* C9: in summary mode log() writes nothing; close() writes one
\* summary_aggregate record per distinct key of the accepted events, in
\* ascending key order, and then the footer.
SummaryFileOK(file, events) ==
    LET n == Len(file)
    IN /\ n = Cardinality(KeysOf(events)) + 1
       /\ file[n].type = "job_summary"
       /\ \A i \in 1..(n - 1) : file[i].type = "summary_aggregate"
       /\ {LineKey(file[i]) : i \in 1..(n - 1)} = KeysOf(events)
       /\ \A i \in 1..(n - 1) : \A j \in 1..(n - 1) :
             i < j => KeyLt(LineKey(file[i]), LineKey(file[j]))

C9_SummaryModeFile ==
    [][logger.detail = "summary" =>
          /\ logger.opened /\ logger'.opened => logger'.file = <<>>
          /\ logger.opened /\ ~logger'.opened => SummaryFileOK(logger'.file, accepted)
          /\ ~logger.opened => logger'.file = logger.file]_vars

C9_Witness ==
    /\ logger.detail = "summary"
    /\ ~logger.opened
    /\ Len(logger.file) >= 3
    /\ Len(accepted) >= 2
    /\ KeyLt(AggKey(accepted[2]), AggKey(accepted[1]))

\* C10: for every aggregate key the count is the number of accepted events
\* with that key, and the samples are the first min(count, 25) of them in
\* log order.
EventsWithKey(events, key) ==
    LET HasKey(e) == AggKey(e) = key IN SelectSeq(events, HasKey)
Min(a, b) == IF a < b THEN a ELSE b

C10_CountsAndSamples ==
    /\ DOMAIN logger.summary_counts = KeysOf(accepted)
    /\ DOMAIN logger.summary_samples = KeysOf(accepted)
    /\ \A key \in KeysOf(accepted) :
          LET mine == EventsWithKey(accepted, key)
          IN /\ logger.summary_counts[key] = Len(mine)
             /\ logger.summary_samples[key] =
                   SubSeq(mine, 1, Min(Len(mine), max_samples_per_group))
             /\ Len(logger.summary_samples[key]) <= max_samples_per_group

C10_Witness ==
    \E key \in DOMAIN logger.summary_counts :
        /\ logger.summary_counts[key] > max_samples_per_group
        /\ logger.summary_samples[key][1] # logger.summary_samples[key][2]

\* The logger has just been closed: no API call has been made since, so
\* accepted is the sequence of events accepted before close().
JustClosed == ~logger.opened /\ afterClose = 0
LastLine(file) == file[Len(file)]
TypesOf(events) == {events[i].event_type : i \in 1..Len(events)}
CountOfType(events, t) == Cardinality({i \in 1..Len(events) : events[i].event_type = t})
EventLines(events) == [i \in 1..Len(events) |-> [type |-> "event", event |-> events[i]]]

\* C11: in both detail modes the footer written by close() gives as
\* total_events the number of events accepted before close, as
\* event_type_counts the number of accepted events of each type, and these
\* counts sum to total_events; in detailed mode the file of an open logger is
\* exactly the accepted events, one line each, in log order.
C11_FooterFromAggregate ==
    /\ JustClosed =>
          LET f == LastLine(logger.file)
          IN /\ f.type = "job_summary"
             /\ f.total_events = Len(accepted)
             /\ DOMAIN f.event_type_counts = TypesOf(accepted)
             /\ \A t \in TypesOf(accepted) :
                   f.event_type_counts[t] = CountOfType(accepted, t)
             /\ SumCounts(f.event_type_counts, DOMAIN f.event_type_counts) = f.total_events
    /\ (logger.detail = "detailed" /\ logger.opened) =>
          logger.file = EventLines(accepted)
    /\ (logger.detail = "detailed" /\ JustClosed) =>
          SubSeq(logger.file, 1, Len(logger.file) - 1) = EventLines(accepted)

C11_Witness ==
    /\ JustClosed
    /\ logger.detail = "summary"
    /\ Len(accepted) >= 3
    /\ Cardinality(TypesOf(accepted)) >= 2
    /\ LastLine(logger.file).total_events = Len(accepted)

\* C12: the footer's unique_columns_touched is the number of distinct column
\* names among the accepted events, not counting "__row__", an empty or a
\* missing column; when only row_dropped events were accepted it is 0.
TouchedColumns(events) ==
    {events[i].column : i \in 1..Len(events)} \ {Absent, "", "__row__"}

C12_UniqueColumnsTouched ==
    JustClosed =>
        /\ LastLine(logger.file).unique_columns_touched =
              Cardinality(TouchedColumns(accepted))
        /\ TypesOf(accepted) \subseteq {"row_dropped"} =>
              LastLine(logger.file).unique_columns_touched = 0

C12_Witness ==
    /\ JustClosed
    /\ Len(accepted) >= 2
    /\ TypesOf(accepted) = {"row_dropped"}
    /\ LastLine(logger.file).unique_columns_touched = 0

\* C30: once the logger has been closed, no call of log, set_context or
\* close changes the file, and the only call that raises is log of an event
\* lacking a mandatory key.
C30_ClosedFileFrozen ==
    [][~logger.opened =>
          /\ logger'.file = logger.file
          /\ ~logger'.opened
          /\ raised' => \E event \in AuditEvents :
                           MissingRequired(event) # {} /\ ALog(event)]_vars

C30_Witness ==
    /\ ~logger.opened
    /\ afterClose >= 1
    /\ closes = 1
    /\ ~raised
    /\ logger.detail = "detailed"
    /\ Len(accepted) = Len(logger.file)
    /\ LastLine(logger.file).type = "job_summary"

(***************************************************************************)
(* Tables.  A DataFrame is its column dtypes and its rows in index order; *)
(* a row maps each column to a value and Index to the row's index label.  *)
(* The index is the default one (0, 1, ...), so index order is row order  *)
(* and a row keeps its label when other rows are dropped.                 *)
(***************************************************************************)
Cols == <<"_row_id", "a", "b">>
ColSet == {Cols[i] : i \in 1..Len(Cols)}
Index == "<index>"
Indices(n) == [i \in 1..n |-> i]
Column(tbl, col) == [i \in 1..Len(tbl.rows) |-> tbl.rows[i][col]]
SetColumn(tbl, col, vals, dtype) ==
    [dtype |-> [tbl.dtype EXCEPT ![col] = dtype],
     rows |-> [i \in 1..Len(tbl.rows) |-> [tbl.rows[i] EXCEPT ![col] = vals[i]]]]
\* df.drop(index=...) / df[~mask]
DropRows(tbl, drop) ==
    [dtype |-> tbl.dtype,
     rows |-> LET Kept(i) == i \notin drop
                  keep == SelectSeq(Indices(Len(tbl.rows)), Kept)
              IN [k \in 1..Len(keep) |-> tbl.rows[keep[k]]]]
RowIds(tbl) == Column(tbl, "_row_id")
\* pd.api.types.is_numeric_dtype
IsNumericDtype(dtype) == dtype \in {"int64", "float64", "boolean"}
\* standardize.py:21-23  _is_string_like
IsStringLike(dtype) == dtype = "object"

\* The injected clock: a constant function, as the CLI's --clock gives.
Clock == "T"

\* parsing.py:16-24, missing.py:21-28  _is_effectively_missing
MissingTokens ==
    { <<>>, <<"n", "a", "n">>, <<"n", "u", "l", "l">>, <<"n", "o", "n", "e">>,
      <<"n", "a">>, <<"n", "/", "a">>, <<"i", "n", "f">>, <<"-", "i", "n", "f">>,
      <<"i", "n", "f", "i", "n", "i", "t", "y">>,
      <<"-", "i", "n", "f", "i", "n", "i", "t", "y">> }
IsEffectivelyMissing(v) ==
    \/ v.t = "null"
    \/ v.t = "str" /\ LowerStr(Strip(v.s)) \in MissingTokens

\* A phase's result: the table it returns and the events it logged, in order.
Result(tbl, events) == [df |-> tbl, events |-> events]

(***************************************************************************)
(* Phase 1: standardization (standardize.py).                             *)
(***************************************************************************)
\* standardize.py:92-119  strip_nonprinting, on one string
StripNonprinting(cs) ==
    LET kept == RemoveChars(cs, ControlChars)
    IN [i \in 1..Len(kept) |-> IF kept[i] = "<NBSP>" THEN " " ELSE kept[i]]

\* standardize.py:72-150  the five string operations, on one cell
StdValue(step, arg, v) ==
    IF v.t # "str" THEN v
    ELSE CASE step = "strip_nonprinting" -> Str(StripNonprinting(v.s))
           [] step = "trim_whitespace" -> Str(Strip(v.s))
           [] step = "collapse_whitespace" -> Str(CollapseWs(v.s))
           [] step = "casefold_lower" -> Str(LowerStr(v.s))
           [] step = "casefold_upper" -> Str(UpperStr(v.s))
           [] step = "casefold_title" -> Str(TitleStr(v.s))
           [] step = "value_mapping" ->
                 IF v.s \in DOMAIN arg THEN Str(arg[v.s]) ELSE v
           [] OTHER -> v

\* standardize.py:26-69  _audit_change: one event per changed cell
AuditChange(ids, col, old, new, reason, section) ==
    LET Changed(i) == old[i] # new[i]
        idx == SelectSeq(Indices(Len(old)), Changed)
    IN [k \in 1..Len(idx) |->
          Event(Clock, "standardization_change", Reason(reason, <<>>), section, col,
                ids[idx[k]], StrOrNone(old[idx[k]]), StrOrNone(new[idx[k]]))]

\* One column of one step: skipped when protected or not string-like
\* (a mapping is skipped only when protected).
StdColumn(res, ids, pol, col, step, arg, section) ==
    LET old == Column(res.df, col)
        new == [i \in 1..Len(old) |-> StdValue(step, arg, old[i])]
        skip == \/ col \in pol.protected
                \/ step # "value_mapping" /\ ~IsStringLike(res.df.dtype[col])
    IN IF skip \/ old = new THEN res
       ELSE Result(SetColumn(res.df, col, new, res.df.dtype[col]),
                   res.events \o AuditChange(ids, col, old, new, step, section))

RECURSIVE StdStep(_, _, _, _, _, _)
StdStep(res, ids, pol, cols, step, section) ==
    IF cols = <<>> THEN res
    ELSE StdStep(StdColumn(res, ids, pol, Head(cols), step, <<>>, section),
                 ids, pol, Tail(cols), step, section)

\* standardize.py:269-290  mappings.items(), in the dictionary's order
RECURSIVE StdMappings(_, _, _, _)
StdMappings(res, ids, pol, maps) ==
    IF maps = <<>> THEN res
    ELSE LET m == Head(maps)
         IN StdMappings(
              IF m.col \notin ColSet THEN res
              ELSE StdColumn(res, ids, pol, m.col, "value_mapping", m.map,
                             "standardization.mappings"),
              ids, pol, Tail(maps))

\* Variant of apply_standardization that trims before it strips the
\* non-printing characters.
ApplyStandardizationTrimFirst(tbl, pol) ==
    LET ids == RowIds(tbl)
        r0 == Result(tbl, <<>>)
        r1 == IF pol.global_trim_whitespace
              THEN StdStep(r0, ids, pol, Cols, "trim_whitespace",
                           "standardization.global_trim_whitespace")
              ELSE r0
        r2 == IF pol.strip_nonprinting
              THEN StdStep(r1, ids, pol, Cols, "strip_nonprinting",
                           "standardization.strip_nonprinting")
              ELSE r1
        r3 == IF pol.global_collapse_whitespace
              THEN StdStep(r2, ids, pol, Cols, "collapse_whitespace",
                           "standardization.global_collapse_whitespace")
              ELSE r2
        r4 == IF pol.casefold # "none"
              THEN StdStep(r3, ids, pol, Cols, "casefold_" \o pol.casefold,
                           "standardization.casefold")
              ELSE r3
    IN StdMappings(r4, ids, pol, pol.mappings)

\* standardize.py:153-292  apply_standardization
ApplyStandardization(tbl, pol) ==
    LET ids == RowIds(tbl)
        r0 == Result(tbl, <<>>)
        r1 == IF pol.strip_nonprinting
              THEN StdStep(r0, ids, pol, Cols, "strip_nonprinting",
                           "standardization.strip_nonprinting")
              ELSE r0
        r2 == IF pol.global_trim_whitespace
              THEN StdStep(r1, ids, pol, Cols, "trim_whitespace",
                           "standardization.global_trim_whitespace")
              ELSE r1
        r3 == IF pol.global_collapse_whitespace
              THEN StdStep(r2, ids, pol, Cols, "collapse_whitespace",
                           "standardization.global_collapse_whitespace")
              ELSE r2
        r4 == IF pol.casefold # "none"
              THEN StdStep(r3, ids, pol, Cols, "casefold_" \o pol.casefold,
                           "standardization.casefold")
              ELSE r3
    IN StdMappings(r4, ids, pol, pol.mappings)

(***************************************************************************)
(* Phase 2: parsing (parsing.py).  Datetime columns are not modelled: no  *)
(* policy of the model types a column datetime.                           *)
(***************************************************************************)
CurrencyCodes ==
    <<<<"U", "S", "D">>, <<"E", "U", "R">>, <<"G", "B", "P">>,
      <<"I", "N", "R">>, <<"J", "P", "Y">>, <<"A", "U", "D">>,
      <<"C", "A", "D">>, <<"C", "H", "F">>, <<"C", "N", "Y">>,
      <<"M", "X", "N">>, <<"B", "R", "L">>, <<"K", "R", "W">>,
      <<"S", "G", "D">>, <<"H", "K", "D">>, <<"N", "Z", "D">>,
      <<"R", "S", ".">>, <<"R", "S">>>>

\* parsing.py:64-79  the first currency code that is a prefix or a suffix
\* with something left over is cut off
RECURSIVE StripCode(_, _, _)
StripCode(s, stripped, codes) ==
    IF codes = <<>> THEN s
    ELSE LET code == Head(codes)
             up == UpperStr(stripped)
             restPre == LStrip(SubSeq(stripped, Len(code) + 1, Len(stripped)))
             restSuf == RStrip(SubSeq(stripped, 1, Len(stripped) - Len(code)))
         IN IF StartsWith(up, code) /\ restPre # <<>> THEN restPre
            ELSE IF EndsWith(up, code) /\ restSuf # <<>> THEN restSuf
            ELSE StripCode(s, stripped, Tail(codes))

\* parsing.py:56-83  _strip_currency_and_commas
StripCurrencyAndCommas(text, allow_commas, allow_currency) ==
    LET s1 == IF allow_commas THEN RemoveChars(text, {","}) ELSE text
        s2 == IF allow_currency THEN RemoveChars(s1, {"$"}) ELSE s1
        s3 == IF allow_currency THEN StripCode(s2, Strip(s2), CurrencyCodes) ELSE s2
    IN Strip(s3)

NanInfTokens ==
    { <<"n", "a", "n">>, <<"i", "n", "f">>,
      <<"i", "n", "f", "i", "n", "i", "t", "y">> }
IsSignedNanInf(cs) ==
    \/ cs \in NanInfTokens
    \/ cs # <<>> /\ Head(cs) \in {"+", "-"} /\ Tail(cs) \in NanInfTokens

\* re.sub(r'(?<=\d) (?=\d)', '', s)
DropDigitSpaces(cs) ==
    LET Kept(i) == ~(/\ cs[i] = " " /\ i > 1 /\ i < Len(cs)
                     /\ IsDigit(cs[i - 1]) /\ IsDigit(cs[i + 1]))
        keep == SelectSeq(Indices(Len(cs)), Kept)
    IN [k \in 1..Len(keep) |-> cs[keep[k]]]

\* parsing.py:86-114  _normalize_numeric_string; a rejected token leaves the
\* caller's text as it was (parsing.py:248-252)
NormalizeNumericString(raw) ==
    LET s0 == Strip(raw)
        s1 == IF StartsWith(s0, <<"(">>) /\ EndsWith(s0, <<")">>)
              THEN <<"-">> \o SubSeq(s0, 2, Len(s0) - 1)
              ELSE s0
        s2 == IF StartsWith(s1, <<"+">>) /\ Len(s1) > 1 /\ s1[2] # "+"
              THEN Tail(s1)
              ELSE s1
    IN IF IsSignedNanInf(RemoveChars(LowerStr(s0), {" "})) THEN raw
       ELSE DropDigitSpaces(s2)

RECURSIVE DigitsValue(_)
DigitsValue(cs) ==
    IF cs = <<>> THEN 0
    ELSE DigitsValue(SubSeq(cs, 1, Len(cs) - 1)) * 10 + DigitVal(cs[Len(cs)])
RECURSIVE Pow10(_)
Pow10(k) == IF k = 0 THEN 1 ELSE 10 * Pow10(k - 1)

\* float(text), for decimal literals without exponent or underscores:
\* kind is "ok" (value v), "nan_inf" or "error"
FloatOf(text) ==
    LET t == Strip(text)
        signed == t # <<>> /\ Head(t) \in {"+", "-"}
        body == IF signed THEN Tail(t) ELSE t
        digs == RemoveChars(body, {"."})
        points == Len(body) - Len(digs)
        point == IndexOf(body, ".", 1)
        frac == IF point = 0 THEN 0 ELSE Len(body) - point
        mag == DigitsValue(digs)
    IN IF /\ digs # <<>>
          /\ \A i \in 1..Len(digs) : IsDigit(digs[i])
          /\ points <= 1
       THEN [kind |-> "ok",
             v |-> Norm(IF signed /\ Head(t) = "-" THEN 0 - mag ELSE mag, Pow10(frac))]
       ELSE IF IsSignedNanInf(LowerStr(t)) THEN [kind |-> "nan_inf", v |-> Null]
       ELSE [kind |-> "error", v |-> Null]

\* parsing.py:236-291  one non-missing cell of a numeric column:
\* the float, or the reason of the failure
\* parsing.py:255-291  float(raw_num): the value, scaled when the text was a
\* percentage, or the reason of the failure
NumericResult(raw_num, f, scaled) ==
    IF f.kind = "ok"
    THEN [ok |-> TRUE,
          v |-> IF scaled THEN Norm(f.v.n, f.v.d * 100) ELSE f.v,
          reason |-> ""]
    ELSE [ok |-> FALSE, v |-> Null,
          reason |-> IF f.kind = "nan_inf" THEN "infinite_or_nan_value"
                     ELSE IF \/ Contains(raw_num, <<"n", "a", "n">>)
                             \/ Contains(raw_num, <<"i", "n", "f", "i", "n", "i", "t", "e">>)
                          THEN "could not convert string to float"
                          ELSE "invalid_numeric"]

\* parsing.py:236-253  the text handed to float(): percent sign removed,
\* currency and commas stripped, sign and spaces normalised
NumericText(raw, raw_normalized, is_pct, pol) ==
    NormalizeNumericString(
        StripCurrencyAndCommas(
            IF is_pct THEN Strip(RemoveChars(raw_normalized, {"%"})) ELSE raw,
            pol.allow_commas, pol.allow_currency_symbols))

NumericOfText(raw_num, is_pct, pol) ==
    NumericResult(raw_num, FloatOf(raw_num),
                  is_pct /\ pol.percent_scale \in {"0_1", "auto"})

NumericOfRaw(raw, raw_normalized, pol) ==
    NumericOfText(NumericText(raw, raw_normalized,
                              pol.allow_percent_symbol /\ HasChar(raw_normalized, "%"),
                              pol),
                  pol.allow_percent_symbol /\ HasChar(raw_normalized, "%"), pol)

NumericOfStripped(raw, pol) == NumericOfRaw(raw, Strip(CollapseWs(raw)), pol)

NumericOf(val, pol) ==
    IF val.t = "num" THEN [ok |-> TRUE, v |-> val, reason |-> ""]
    ELSE NumericOfStripped(Strip(PyStr(val).s), pol)

\* parsing.py:180-184  one non-missing cell of a boolean column
StripLower(v) == LowerStr(Strip(v))
BooleanOf(val, pol) ==
    LET sval == IF val.t = "num" THEN <<"<repr>">> ELSE StripLower(PyStr(val).s)
    IN IF sval \in {StripLower(v) : v \in pol.true_values}
       THEN [ok |-> TRUE, v |-> Bool(TRUE), reason |-> ""]
       ELSE IF sval \in {StripLower(v) : v \in pol.false_values}
       THEN [ok |-> TRUE, v |-> Bool(FALSE), reason |-> ""]
       ELSE [ok |-> FALSE, v |-> Null, reason |-> "invalid_boolean"]

\* A calendar date written YYYY-MM-DD, within the years a nanosecond
\* timestamp can hold.
DaysIn(year, month) ==
    CASE month \in {4, 6, 9, 11} -> 30
      [] month = 2 -> IF year % 4 = 0 /\ (year % 100 # 0 \/ year % 400 = 0) THEN 29 ELSE 28
      [] OTHER -> 31
IsIsoDate(cs) ==
    /\ Len(cs) = 10
    /\ cs[5] = "-" /\ cs[8] = "-"
    /\ \A i \in {1, 2, 3, 4, 6, 7, 9, 10} : IsDigit(cs[i])
    /\ DigitsValue(SubSeq(cs, 1, 4)) \in 1678..2261
    /\ DigitsValue(SubSeq(cs, 6, 7)) \in 1..12
    /\ DigitsValue(SubSeq(cs, 9, 10)) \in
          1..DaysIn(DigitsValue(SubSeq(cs, 1, 4)), DigitsValue(SubSeq(cs, 6, 7)))

\* parsing.py:318-324  pd.to_datetime(val, errors="coerce") with no
\* allowed_formats, for the texts the model's datetime columns hold: a date
\* written YYYY-MM-DD is read, a text without any digit among the letters
\* x, y, z and blanks gives NaT
DatetimeOf(val) ==
    IF val.t = "str" /\ IsIsoDate(val.s)
    THEN [ok |-> TRUE, v |-> Ts(val.s), reason |-> ""]
    ELSE [ok |-> FALSE, v |-> Null, reason |-> "invalid_datetime"]

\* parsing.py:156-158  the failure mode of a type
OnFailure(pol, kind) ==
    CASE kind = "boolean" -> pol.bool_on_failure
      [] kind = "datetime" -> pol.dt_on_failure
      [] OTHER -> pol.num_on_failure

\* parsing.py:180-184, 236-260, 318-324  the conversion of a non-missing cell
Converted(val, pol, kind) ==
    CASE kind = "boolean" -> BooleanOf(val, pol)
      [] kind = "datetime" -> DatetimeOf(val)
      [] OTHER -> NumericOf(val, pol)

\* Variant of the outcome of a cell in which keep_raw writes a null.
CellOutcomeNoRaw(val, mode, r) ==
    IF r.ok
    THEN [out |-> r.v, fail |-> FALSE, reason |-> "", drop |-> FALSE]
    ELSE [out |-> Null, fail |-> TRUE, reason |-> r.reason, drop |-> mode = "drop_row"]

\* parsing.py:174-203, 227-291  one cell of a typed column: the cell written
\* to the output buffer, whether a failure is audited, whether the row is
\* marked for dropping
CellOutcome(val, mode, r) ==
    IF r.ok
    THEN [out |-> r.v, fail |-> FALSE, reason |-> "", drop |-> FALSE]
    ELSE [out |-> IF mode = "keep_raw" THEN val ELSE Null,
          fail |-> TRUE, reason |-> r.reason, drop |-> mode = "drop_row"]

ParseCell(val, pol, kind) ==
    IF IsEffectivelyMissing(val)
    THEN [out |-> IF kind # "boolean" /\ OnFailure(pol, kind) = "keep_raw" THEN val ELSE Null,
          fail |-> FALSE, reason |-> "", drop |-> FALSE]
    ELSE CellOutcome(val, OnFailure(pol, kind), Converted(val, pol, kind))

\* parsing.py:32-53  _audit_failure
AuditFailure(rid, col, val, reason, kind) ==
    Event(Clock, "parsing_failure", Reason(reason, <<>>), "parsing." \o kind, col,
          rid, PyStr(val), Null)

\* parsing.py:169-208, 217-293  one typed column; st carries the table, the
\* events logged so far and rows_to_drop
WriteColumn(st, ids, col, kind, dtype, src, cells) ==
    LET Failed(i) == cells[i].fail
        bad == SelectSeq(Indices(Len(src)), Failed)
    IN [df |-> SetColumn(st.df, col, [i \in 1..Len(src) |-> cells[i].out], dtype),
        events |-> st.events \o
            [k \in 1..Len(bad) |->
               AuditFailure(ids[bad[k]], col, src[bad[k]], cells[bad[k]].reason, kind)],
        drop |-> st.drop \cup {i \in 1..Len(src) : cells[i].drop}]

ParseColumn(st, ids, pol, col, kind) ==
    LET src == Column(st.df, col)
        dtype == CASE OnFailure(pol, kind) = "keep_raw" -> "object"
                   [] kind = "boolean" -> "boolean"
                   [] kind = "datetime" -> "datetime64[ns]"
                   [] OTHER -> "float64"
    IN WriteColumn(st, ids, col, kind, dtype, src,
                   [i \in 1..Len(src) |-> ParseCell(src[i], pol, kind)])

RECURSIVE ParseColumns(_, _, _, _, _)
ParseColumns(st, ids, pol, cols, kind) ==
    IF cols = <<>> THEN st
    ELSE ParseColumns(ParseColumn(st, ids, pol, Head(cols), kind),
                      ids, pol, Tail(cols), kind)

\* parsing.py:168, 216  sorted([c for c, t in col_types.items() if t in types
\* and c in df.columns and c not in protected]); Cols is in sorted order
TypedCols(pol, types) ==
    LET Typed(c) == /\ c \in DOMAIN pol.column_types
                    /\ pol.column_types[c] \in types
                    /\ c \notin pol.protected
    IN SelectSeq(Cols, Typed)

\* parsing.py:368-382  the row_dropped events, by ascending index
ParsingDropEvents(ids, drop) ==
    LET Dropped(i) == i \in drop
        idx == SelectSeq(Indices(Len(ids)), Dropped)
    IN [k \in 1..Len(idx) |->
          Event(Clock, "row_dropped", Reason("parsing_on_failure_drop_row", <<>>),
                "parsing.on_failure.drop_row", "__row__", ids[idx[k]],
                RowPresent, Null)]

\* Variant of the end of apply_parsing that logs the dropped rows first.
DropFailedRowsLoggedFirst(ids, st) ==
    Result(DropRows(st.df, st.drop), ParsingDropEvents(ids, st.drop) \o st.events)

\* parsing.py:127-385  apply_parsing
DropFailedRows(ids, st) ==
    Result(DropRows(st.df, st.drop), st.events \o ParsingDropEvents(ids, st.drop))

\* parsing.py:164-366  the columns are written into the table passed in
ParsedInPlace(tbl, ids, pol) ==
    ParseColumns(
        ParseColumns(
            ParseColumns([df |-> tbl, events |-> <<>>, drop |-> {}],
                         ids, pol, TypedCols(pol, {"boolean"}), "boolean"),
            ids, pol, TypedCols(pol, {"numeric", "integer", "float"}), "numeric"),
        ids, pol, TypedCols(pol, {"datetime", "date", "timestamp"}), "datetime")

ApplyParsing(tbl, pol) ==
    DropFailedRows(RowIds(tbl), ParsedInPlace(tbl, RowIds(tbl), pol))

(***************************************************************************)
(* Phase 3: validity enforcement (validity.py).  The keys an event does   *)
(* not carry (row_id, old_value, new_value here) are held as Null.        *)
(***************************************************************************)
\* Variant of _handle_violation in which flag nulls the cells as null does.
HandleViolationFlagNulls(st, mask, col, code, args, action, ts) ==
    LET count == Cardinality(mask)
        event == Event(ts, "validity_" \o action, Reason(code, args \o <<count>>),
                       "validity_rules", col, Null, Null, Null)
        old == Column(st.df, col)
        nulled == [i \in 1..Len(old) |-> IF i \in mask THEN Null ELSE old[i]]
    IN IF count = 0 THEN st
       ELSE [df |-> IF action \in {"null", "flag"}
                    THEN SetColumn(st.df, col, nulled, st.df.dtype[col])
                    ELSE st.df,
             events |-> Append(st.events, event),
             drop |-> IF action = "drop_row" THEN st.drop \cup mask ELSE st.drop]

\* validity.py:147-184  _handle_violation; ts is None unless a clock is passed
HandleViolation(st, mask, col, code, args, action, ts) ==
    LET count == Cardinality(mask)
        event == Event(ts, "validity_" \o action, Reason(code, args \o <<count>>),
                       "validity_rules", col, Null, Null, Null)
        old == Column(st.df, col)
        upcast == st.df.dtype[col] = "int64"
        nulled == [i \in 1..Len(old) |->
                     IF i \in mask THEN Null
                     ELSE IF upcast /\ old[i].t = "int" THEN Num(old[i].n, 1)
                     ELSE old[i]]
    IN IF count = 0 THEN st
       ELSE [df |-> IF action = "null"
                    THEN SetColumn(st.df, col, nulled,
                                   IF upcast THEN "float64" ELSE st.df.dtype[col])
                    ELSE st.df,
             events |-> Append(st.events, event),
             drop |-> IF action = "drop_row" THEN st.drop \cup mask ELSE st.drop]

\* df[col] < limit, df[col] > limit: false for a null cell
Below(tbl, col, limit) ==
    {i \in 1..Len(tbl.rows) :
        IsNumber(tbl.rows[i][col]) /\ NumLt(tbl.rows[i][col], limit)}
Above(tbl, col, limit) ==
    {i \in 1..Len(tbl.rows) :
        IsNumber(tbl.rows[i][col]) /\ NumLt(limit, tbl.rows[i][col])}

\* validity.py:41-55  non_negative_columns, in the iteration order of the set
RECURSIVE CheckNonNegative(_, _, _)
CheckNonNegative(st, pol, cols) ==
    IF cols = <<>> THEN st
    ELSE LET col == Head(cols)
             mask == Below(st.df, col, IntV(0))
         IN CheckNonNegative(
              IF col \notin ColSet \/ ~IsNumericDtype(st.df.dtype[col]) THEN st
              ELSE HandleViolation(st, mask, col,
                                   "non_negative: Value must be >= 0 ({count} rows)",
                                   <<>>, pol.on_violation, None),
              pol, Tail(cols))

\* validity.py:58-83  ranges.items()
RECURSIVE CheckRanges(_, _, _)
CheckRanges(st, pol, ranges) ==
    IF ranges = <<>> THEN st
    ELSE LET r == Head(ranges)
             s1 == IF r.min.t = "null" THEN st
                   ELSE HandleViolation(st, Below(st.df, r.col, r.min), r.col,
                                        "range_min: Value < {mn} ({count} rows)",
                                        <<r.min.n, r.min.d>>, pol.on_violation, None)
             s2 == IF r.max.t = "null" THEN s1
                   ELSE HandleViolation(s1, Above(s1.df, r.col, r.max), r.col,
                                        "range_max: Value > {mx} ({count} rows)",
                                        <<r.max.n, r.max.d>>, pol.on_violation, None)
         IN CheckRanges(
              IF r.col \notin ColSet \/ ~IsNumericDtype(st.df.dtype[r.col]) THEN st
              ELSE s2,
              pol, Tail(ranges))

\* Series.isin: equal strings, or equal numbers
IsIn(v, allowed) ==
    \E w \in allowed :
        \/ v = w
        \/ IsNumber(v) /\ IsNumber(w) /\ NumEq(v, w)

\* validity.py:86-103  allowed_values.items(); nulls are exempt
RECURSIVE CheckAllowed(_, _, _)
CheckAllowed(st, pol, rules) ==
    IF rules = <<>> THEN st
    ELSE LET r == Head(rules)
             mask == {i \in 1..Len(st.df.rows) :
                        /\ st.df.rows[i][r.col].t # "null"
                        /\ ~IsIn(st.df.rows[i][r.col], r.allowed)}
         IN CheckAllowed(
              IF r.col \notin ColSet THEN st
              ELSE HandleViolation(st, mask, r.col,
                                   "allowed_values: Value not in allowed list ({count} rows)",
                                   <<>>, pol.on_violation, None),
              pol, Tail(rules))

\* re.match for the patterns the model's policies use
RegexMatch(pattern, v) ==
    CASE pattern = "^[a-z]+$" ->
            /\ v.t = "str"
            /\ LET body == IF v.s # <<>> /\ v.s[Len(v.s)] = "\n"
                           THEN SubSeq(v.s, 1, Len(v.s) - 1) ELSE v.s
               IN /\ body # <<>>
                  /\ \A i \in 1..Len(body) : IndexOf(LowerChars, body[i], 1) # 0
      [] OTHER -> FALSE

\* validity.py:106-128  regex.items(); nulls are exempt, the clock is passed
RECURSIVE CheckRegex(_, _, _)
CheckRegex(st, pol, rules) ==
    IF rules = <<>> THEN st
    ELSE LET r == Head(rules)
             mask == {i \in 1..Len(st.df.rows) :
                        /\ st.df.rows[i][r.col].t # "null"
                        /\ ~RegexMatch(r.pattern, PyStr(st.df.rows[i][r.col]))}
         IN CheckRegex(
              IF r.col \notin ColSet THEN st
              ELSE HandleViolation(st, mask, r.col,
                                   "regex_mismatch: Value does not match pattern ({count} rows)",
                                   <<>>, pol.on_violation, Clock),
              pol, Tail(rules))

\* validity.py:40-128  the four rule families; nulls are written into the
\* table passed in
CheckedInPlace(tbl, pol, order) ==
    CheckRegex(
        CheckAllowed(
            CheckRanges(
                CheckNonNegative([df |-> tbl, events |-> <<>>, drop |-> {}], pol, order),
                pol, pol.ranges),
            pol, pol.allowed_values),
        pol, pol.regex)

\* validity.py:11-144  apply_validity; order is the order in which the set
\* non_negative is iterated
\* validity.py:28-29, 130-144  the table returned once the rules have run
DropViolating(tbl, pol, s4) ==
    LET dropEvent ==
            Event(Clock, "validity_drop",
                  Reason("Dropped rows due to validity violations",
                         <<Cardinality(s4.drop)>>),
                  "validity_rules", Absent, Null, Null, Null)
    IN IF ~pol.validity_enabled THEN Result(tbl, <<>>)
       ELSE IF s4.drop = {} THEN Result(s4.df, s4.events)
       ELSE Result(DropRows(s4.df, s4.drop), Append(s4.events, dropEvent))

ApplyValidity(tbl, pol, order) ==
    DropViolating(tbl, pol, CheckedInPlace(tbl, pol, order))

(***************************************************************************)
(* Phases 4 and 5: critical-missing drop and imputation (missing.py).     *)
(***************************************************************************)
\* Variant of the mask that looks for true nulls only.
CriticalMaskNullOnly(tbl, pol) ==
    {i \in 1..Len(tbl.rows) : \E c \in pol.critical \cap ColSet : tbl.rows[i][c].t = "null"}

\* missing.py:55-59  the rows with a missing value in a critical column
CriticalMask(tbl, pol) ==
    {i \in 1..Len(tbl.rows) :
        \E c \in pol.critical \cap ColSet : IsEffectivelyMissing(tbl.rows[i][c])}

\* missing.py:31-82  drop_critical_missing
DropCriticalMissing(tbl, pol) ==
    LET mask == CriticalMask(tbl, pol)
        Dropped(i) == i \in mask
        idx == SelectSeq(Indices(Len(tbl.rows)), Dropped)
        events == [k \in 1..Len(idx) |->
                     Event(Clock, "row_dropped", Reason("missing_critical_column", <<>>),
                           "missing_data.drop_if_missing_critical", "__row__",
                           tbl.rows[idx[k]]["_row_id"], RowPresent, Null)]
    IN IF ~pol.missing_enabled \/ ~pol.drop_if_missing_critical THEN Result(tbl, <<>>)
       ELSE IF pol.critical = {} \/ mask = {} THEN Result(tbl, <<>>)
       ELSE Result(DropRows(tbl, mask), events)

RatAdd(v, w) == Norm(v.n * w.d + w.n * v.d, v.d * w.d)
RECURSIVE SumSeq(_)
SumSeq(vals) == IF vals = <<>> THEN Num(0, 1) ELSE RatAdd(Head(vals), SumSeq(Tail(vals)))

\* Series.mean: the mean of the non-null cells, NaN when there is none
MeanOf(vals) ==
    LET nums == SelectSeq(vals, IsNumber)
        sum == SumSeq(nums)
    IN IF nums = <<>> THEN Null ELSE Norm(sum.n, sum.d * Len(nums))

\* Series.median
MedianOf(vals) ==
    LET nums == SelectSeq(vals, IsNumber)
        n == Len(nums)
        \* the k-th smallest: at most k-1 cells are smaller, at least k are not larger
        Kth(k) == CHOOSE x \in {nums[i] : i \in 1..n} :
                     /\ Cardinality({i \in 1..n : NumLt(nums[i], x)}) < k
                     /\ Cardinality({i \in 1..n : ~NumLt(x, nums[i])}) >= k
        lo == Kth((n + 1) \div 2)
        hi == Kth((n \div 2) + 1)
        sum == RatAdd(lo, hi)
    IN IF n = 0 THEN Null ELSE Norm(sum.n, sum.d * 2)

\* Series.mode().iloc[0]: the most frequent value, the smallest on a tie
ValLt(v, w) ==
    IF v.t = "str" /\ w.t = "str" THEN CharsLt(v.s, w.s) ELSE NumLt(v, w)
ModeOf(vals) ==
    LET S == {vals[i] : i \in 1..Len(vals)}
        Freq(x) == Cardinality({i \in 1..Len(vals) : vals[i] = x})
        top == {x \in S : \A y \in S : Freq(y) <= Freq(x)}
    IN IF S = {} THEN Null
       ELSE CHOOSE x \in top : \A y \in top \ {x} : ValLt(x, y)

\* f"{x:.4f}" held as the number of ten-thousandths (x >= 0)
Fmt4(x) == (2 * 10000 * x.n + x.d) \div (2 * x.d)

NumericTypes == {"numeric", "integer", "float"}
DatetimeTypes == {"datetime", "date", "timestamp"}

\* missing.py:139-163  the columns of a bucket, sorted
BucketCols(tbl, pol, bucket) ==
    LET In(c) ==
          /\ c \notin pol.protected
          /\ c # "_row_id"
          /\ IF c \in DOMAIN pol.column_types
             THEN LET typ == pol.column_types[c]
                  IN CASE bucket = "numeric" -> typ \in NumericTypes
                       [] bucket = "datetime" -> typ \in DatetimeTypes
                       [] OTHER -> typ \notin NumericTypes \cup DatetimeTypes \cup {"boolean"}
             ELSE CASE bucket = "numeric" -> IsNumericDtype(tbl.dtype[c])
                    [] bucket = "datetime" -> FALSE
                    [] OTHER -> ~IsNumericDtype(tbl.dtype[c])
    IN SelectSeq(Cols, In)

\* Variant of the threshold test that also skips a column exactly at the ceiling.
AtOrOverThreshold(threshold, missing_pct) == ~NumLt(missing_pct, threshold)

\* missing.py:171  missing_pct > threshold
OverThreshold(threshold, missing_pct) == NumLt(threshold, missing_pct)

\* Variant of the fill loop that logs the row's position, not its _row_id.
ImputeColumnLogsPosition(res, pol, bucket, col) ==
    LET cfg == pol.imputation[bucket]
        s == Column(res.df, col)
        n == Len(s)
        Missing(i) == IsEffectivelyMissing(s[i])
        idx == SelectSeq(Indices(n), Missing)
        missing_pct == Norm(Len(idx), n)
        section == "missing_data.imputation." \o bucket
        constant == IF col \in DOMAIN cfg.constants THEN cfg.constants[col] ELSE Null
        numeric == IsNumericDtype(res.df.dtype[col])
        strategy == IF constant.t # "null" THEN "constant" ELSE cfg.default
        NotMissing(v) == ~IsEffectivelyMissing(v)
        fill_val ==
            CASE constant.t # "null" -> constant
              [] cfg.default = "mean" /\ numeric -> MeanOf(s)
              [] cfg.default = "median" /\ numeric -> MedianOf(s)
              [] cfg.default = "mode" /\ bucket = "categorical" ->
                    ModeOf(SelectSeq(s, NotMissing))
              [] OTHER -> Null
        filled == [i \in 1..n |-> IF Missing(i) THEN fill_val ELSE s[i]]
        ids == RowIds(res.df)
    IN IF idx = <<>> THEN res
       ELSE IF OverThreshold(cfg.threshold, missing_pct)
       THEN Result(res.df,
                   Append(res.events,
                          Event(Clock, "imputation_skipped_threshold",
                                Reason("missing_pct_{:.4f}_gt_{:.4f}",
                                       <<Fmt4(missing_pct), Fmt4(cfg.threshold)>>),
                                section, col, Null, Null, Null)))
       ELSE IF fill_val.t = "null" THEN res
       ELSE Result(SetColumn(res.df, col, filled, res.df.dtype[col]),
                   res.events \o
                   [k \in 1..Len(idx) |->
                      Event(Clock, "imputation_fill",
                            Reason("imputation_" \o strategy, <<>>), section, col,
                            res.df.rows[idx[k]][Index], StrOrNone(s[idx[k]]), PyStr(fill_val))])

\* missing.py:164-246  one column of a bucket
ImputeColumn(res, pol, bucket, col) ==
    LET cfg == pol.imputation[bucket]
        s == Column(res.df, col)
        n == Len(s)
        Missing(i) == IsEffectivelyMissing(s[i])
        idx == SelectSeq(Indices(n), Missing)
        missing_pct == Norm(Len(idx), n)
        section == "missing_data.imputation." \o bucket
        constant == IF col \in DOMAIN cfg.constants THEN cfg.constants[col] ELSE Null
        numeric == IsNumericDtype(res.df.dtype[col])
        strategy == IF constant.t # "null" THEN "constant" ELSE cfg.default
        NotMissing(v) == ~IsEffectivelyMissing(v)
        fill_val ==
            CASE constant.t # "null" -> constant
              [] cfg.default = "mean" /\ numeric -> MeanOf(s)
              [] cfg.default = "median" /\ numeric -> MedianOf(s)
              [] cfg.default = "mode" /\ bucket = "categorical" ->
                    ModeOf(SelectSeq(s, NotMissing))
              [] OTHER -> Null
        filled == [i \in 1..n |-> IF Missing(i) THEN fill_val ELSE s[i]]
        ids == RowIds(res.df)
    IN IF idx = <<>> THEN res
       ELSE IF OverThreshold(cfg.threshold, missing_pct)
       THEN Result(res.df,
                   Append(res.events,
                          Event(Clock, "imputation_skipped_threshold",
                                Reason("missing_pct_{:.4f}_gt_{:.4f}",
                                       <<Fmt4(missing_pct), Fmt4(cfg.threshold)>>),
                                section, col, Null, Null, Null)))
       ELSE IF fill_val.t = "null" THEN res
       ELSE Result(SetColumn(res.df, col, filled, res.df.dtype[col]),
                   res.events \o
                   [k \in 1..Len(idx) |->
                      Event(Clock, "imputation_fill",
                            Reason("imputation_" \o strategy, <<>>), section, col,
                            ids[idx[k]], StrOrNone(s[idx[k]]), PyStr(fill_val))])

RECURSIVE ImputeColumns(_, _, _, _)
ImputeColumns(res, pol, bucket, cols) ==
    IF cols = <<>> THEN res
    ELSE ImputeColumns(ImputeColumn(res, pol, bucket, Head(cols)),
                       pol, bucket, Tail(cols))

\* missing.py:129-132  the buckets, in the order of buckets_targets
RECURSIVE ImputeBuckets(_, _, _)
ImputeBuckets(res, pol, buckets) ==
    IF buckets = <<>> THEN res
    ELSE LET b == Head(buckets)
             skip == \/ b \notin DOMAIN pol.imputation
                     \/ /\ pol.imputation[b].default = "none"
                        /\ DOMAIN pol.imputation[b].constants = {}
         IN ImputeBuckets(
              IF skip THEN res
              ELSE ImputeColumns(res, pol, b, BucketCols(res.df, pol, b)),
              pol, Tail(buckets))

\* missing.py:85-248  apply_imputation
ApplyImputation(tbl, pol) ==
    IF ~pol.missing_enabled \/ DOMAIN pol.imputation = {} THEN Result(tbl, <<>>)
    ELSE ImputeBuckets(Result(tbl, <<>>), pol, <<"numeric", "datetime", "categorical">>)

(***************************************************************************)
(* Spec: run_correction_pipeline on a bounded family of tables and        *)
(* policies, logging to a detailed AuditLogger that the caller closes.    *)
(***************************************************************************)
MaxRows == 3         \* rows of an input table

\* The rows an input table is made of (columns a and b as read from text).
RowKinds ==
    << [a |-> Str(<<"1", "0">>), b |-> Str(<<" ", "x", " ">>)],
       [a |-> Str(<<"2", "0">>), b |-> Str(<<"y">>)],
       [a |-> Str(<<"n", "u", "l", "l">>), b |-> Null],
       [a |-> Str(<<"H", "i", "g", "h">>), b |-> Str(<<"x">>)],
       [a |-> Str(<<"-", "5">>), b |-> Str(<<"y">>)] >>

\* A table: some of the rows, in order, each identified by its _row_id.
TableOf(S) ==
    LET In(i) == i \in S
        idx == SelectSeq(Indices(Len(RowKinds)), In)
    IN [dtype |-> [c \in ColSet |-> IF c = "_row_id" THEN "int64" ELSE "object"],
        rows |-> [k \in 1..Len(idx) |->
                    [c \in ColSet \cup {Index} |->
                       CASE c = "_row_id" -> IntV(idx[k])
                         [] c = Index -> IntV(k - 1)
                         [] c = "a" -> RowKinds[idx[k]].a
                         [] OTHER -> RowKinds[idx[k]].b]]]
Tables ==
    {TableOf(S) : S \in {T \in SUBSET (1..Len(RowKinds)) :
                            T # {} /\ Cardinality(T) <= MaxRows}}
NoTable == [dtype |-> <<>>, rows |-> <<>>]

\* The policy every section of which is left out: the defaults the phases
\* read with .get().
DefaultPolicy ==
    [protected |-> {}, critical |-> {},
     strip_nonprinting |-> FALSE, global_trim_whitespace |-> FALSE,
     global_collapse_whitespace |-> FALSE, casefold |-> "none", mappings |-> <<>>,
     column_types |-> <<>>, bool_on_failure |-> "null", num_on_failure |-> "null",
     dt_on_failure |-> "null",
     true_values |-> {}, false_values |-> {},
     allow_commas |-> TRUE, allow_currency_symbols |-> TRUE,
     allow_percent_symbol |-> TRUE, percent_scale |-> "auto",
     validity_enabled |-> TRUE, non_negative |-> {}, ranges |-> <<>>,
     allowed_values |-> <<>>, regex |-> <<>>, on_violation |-> "flag",
     missing_enabled |-> TRUE, drop_if_missing_critical |-> TRUE,
     imputation |-> <<>>]

\* The settings a policy may give, section by section; the first of each
\* sequence leaves the section out.
NoChange == <<>>
RoleOptions ==
    << NoChange, [protected |-> {"a"}], [protected |-> {"b"}] >>
HighTo3 == << [col |-> "a", map |-> (<<"H", "i", "g", "h">> :> <<"3">>)] >>
StandardizationOptions ==
    << NoChange,
       [global_trim_whitespace |-> TRUE],
       [mappings |-> HighTo3],
       [global_trim_whitespace |-> TRUE, mappings |-> HighTo3] >>
ParsingOptions ==
    << NoChange,
       [column_types |-> ("a" :> "numeric")],
       [column_types |-> ("a" :> "numeric"), num_on_failure |-> "keep_raw"],
       [column_types |-> ("a" :> "numeric"), num_on_failure |-> "drop_row"],
       [column_types |-> ("a" :> "boolean"), true_values |-> {<<"H", "i", "g", "h">>},
        false_values |-> {<<"1", "0">>}],
       [column_types |-> ("_row_id" :> "integer")] >>
RangeA == << [col |-> "a", min |-> IntV(0), max |-> IntV(15)] >>
AllowedB == << [col |-> "b", allowed |-> {Str(<<"x">>), Str(<<"y">>)}] >>
ValidityOptions ==
    << NoChange,
       [ranges |-> RangeA],
       [ranges |-> RangeA, on_violation |-> "null"],
       [ranges |-> RangeA, on_violation |-> "drop_row"],
       [allowed_values |-> AllowedB],
       [allowed_values |-> AllowedB, on_violation |-> "null"],
       [allowed_values |-> AllowedB, on_violation |-> "drop_row"],
       [ranges |-> << [col |-> "_row_id", min |-> Null, max |-> IntV(1)] >>,
        on_violation |-> "null"] >>
Impute(bucket, default, threshold) ==
    bucket :> [default |-> default, constants |-> <<>>, threshold |-> threshold]
ImputeWith(bucket, default, threshold, constants) ==
    bucket :> [default |-> default, constants |-> constants, threshold |-> threshold]
MissingDataOptions ==
    << NoChange,
       [critical |-> {"a"}],
       [critical |-> {"a"}, drop_if_missing_critical |-> FALSE],
       [imputation |-> Impute("numeric", "mean", Num(1, 1))],
       [imputation |-> Impute("numeric", "mean", Num(1, 4))],
       [imputation |-> Impute("categorical", "mode", Num(1, 1))],
       [critical |-> {"a"}, imputation |-> Impute("numeric", "mean", Num(1, 1))] >>

UnclosedB == << [col |-> "b", pattern |-> "("] >>
LowerB == << [col |-> "b", pattern |-> "^[a-z]+$"] >>
YToDate ==
    << [col |-> "b",
        map |-> (<<"y">> :> <<"2", "0", "2", "0", "-", "0", "1", "-", "0", "2">>)] >>

\* Further policies, each given whole.
ExtraSettings ==
    << \* a per-column constant for b, mode for the other categorical columns,
       \* and a ceiling of one half
       [imputation |-> ImputeWith("categorical", "mode", Num(1, 2),
                                  "b" :> Str(<<"z">>))],
       \* two numeric columns that may hold negative numbers, both listed
       \* in non_negative_columns
       [mappings |-> << [col |-> "b", map |-> (<<"y">> :> <<"-", "1">>)] >>,
        column_types |-> ("a" :> "numeric") @@ ("b" :> "numeric"),
        non_negative |-> {"a", "b"}],
       \* a boolean column under keep_raw and under drop_row
       [column_types |-> ("a" :> "boolean"), true_values |-> {<<"H", "i", "g", "h">>},
        false_values |-> {<<"1", "0">>}, bool_on_failure |-> "keep_raw"],
       [column_types |-> ("a" :> "boolean"), true_values |-> {<<"H", "i", "g", "h">>},
        false_values |-> {<<"1", "0">>}, bool_on_failure |-> "drop_row"],
       \* a datetime column in which "y" stands for a date, under null and
       \* under keep_raw
       [mappings |-> YToDate, column_types |-> ("b" :> "datetime")],
       [mappings |-> YToDate, column_types |-> ("b" :> "datetime"),
        dt_on_failure |-> "keep_raw"],
       \* a numeric and a datetime column, both under drop_row
       [column_types |-> ("a" :> "numeric") @@ ("b" :> "datetime"),
        num_on_failure |-> "drop_row", dt_on_failure |-> "drop_row"],
       \* two critical columns, one of them not in the table, and a rule
       \* that nulls cells of the other
       [critical |-> {"b", "c"}, allowed_values |-> AllowedB, on_violation |-> "null"],
       \* a critical column whose missing values are kept, and imputation
       [critical |-> {"a"}, drop_if_missing_critical |-> FALSE,
        imputation |-> Impute("categorical", "mode", Num(1, 1))],
       \* rules of all four kinds at once, under drop_row and under null
       [column_types |-> ("a" :> "numeric"), non_negative |-> {"a"}, ranges |-> RangeA,
        allowed_values |-> AllowedB, regex |-> LowerB, on_violation |-> "drop_row"],
       [column_types |-> ("a" :> "numeric"), non_negative |-> {"a"}, ranges |-> RangeA,
        allowed_values |-> AllowedB, regex |-> LowerB, on_violation |-> "null"],
       \* a rule that flags cells of b, and a pattern that does not compile
       [allowed_values |-> AllowedB, regex |-> UnclosedB],
       \* a numeric column filled with its median
       [column_types |-> ("a" :> "numeric"),
        imputation |-> Impute("numeric", "median", Num(1, 1))] >>

\* A policy gives at most two of the five sections.
PolicyOf(t) ==
    MissingDataOptions[t[5]] @@ ValidityOptions[t[4]] @@ ParsingOptions[t[3]]
    @@ StandardizationOptions[t[2]] @@ RoleOptions[t[1]] @@ DefaultPolicy
Policies ==
    {PolicyOf(t) :
        t \in {u \in (1..Len(RoleOptions)) \X (1..Len(StandardizationOptions))
                     \X (1..Len(ParsingOptions)) \X (1..Len(ValidityOptions))
                     \X (1..Len(MissingDataOptions)) :
                  Cardinality({i \in 1..5 : u[i] # 1}) <= 2}}
    \cup {ExtraSettings[i] @@ DefaultPolicy : i \in 1..Len(ExtraSettings)}

\* The orders in which a set can be iterated.
\* Variant of DataFrame.copy that hands back the object it is called on.
DataFrameAlias(isCallers) == isCallers

\* DataFrame.copy(): a new object; the result is never the caller's table
DataFrameCopy(isCallers) == FALSE

OrdersOf(S) ==
    {f \in [1..Cardinality(S) -> S] : \A i, j \in 1..Cardinality(S) : f[i] = f[j] => i = j}

Init ==
    /\ logger = NewLogger("detailed")
    /\ accepted = <<>>
    /\ raised = FALSE
    /\ afterClose = 0
    /\ closes = 0
    /\ pc = "standardization"
    /\ run = 1
    /\ policy \in Policies
    /\ input \in Tables
    /\ df = input          \* pipeline.py:36  df = df.copy()
    /\ out1 = NoTable
    /\ iterOrder = <<>>
    /\ caller = input
    /\ shared = DataFrameCopy(TRUE)
    /\ passed = NoTable
    /\ profile = <<>>
    /\ scored = <<>>

\* What a phase does to the table object it is given: argAfter is the
\* object's content when the phase returns, same tells whether the phase
\* returns that very object.
Alias(argAfter, same) ==
    /\ passed' = argAfter
    /\ caller' = IF shared THEN passed' ELSE caller
    /\ shared' = (shared /\ same)

\* A phase that starts with df = df.copy() and then writes into df.
CopyFirst ==
    /\ shared' = DataFrameCopy(shared)
    /\ caller' = IF shared' THEN df' ELSE caller
    /\ passed' = IF DataFrameCopy(TRUE) THEN df' ELSE df

\* audit.log(event) for each event of a phase, up to the first that raises
RECURSIVE LogAll(_, _)
LogAll(lg, events) ==
    IF events = <<>> \/ LogRaises(Head(events)) THEN lg
    ELSE LogAll(LoggerLog(lg, Head(events)), Tail(events))
RECURSIVE AcceptedOf(_)
AcceptedOf(events) ==
    IF events = <<>> \/ LogRaises(Head(events)) THEN <<>>
    ELSE <<Head(events)>> \o AcceptedOf(Tail(events))

\* Variant of the order of the phases: validity enforcement before parsing.
NextPhaseValidityFirst(here) ==
    CASE here = "standardization" -> "validity"
      [] here = "validity" -> "parsing"
      [] here = "parsing" -> "drop_critical_missing"
      [] here = "drop_critical_missing" -> "imputation"
      [] OTHER -> "returned"

\* pipeline.py:38-54  the statement that follows each phase
NextPhase(here) ==
    CASE here = "standardization" -> "parsing"
      [] here = "parsing" -> "validity"
      [] here = "validity" -> "drop_critical_missing"
      [] here = "drop_critical_missing" -> "imputation"
      [] OTHER -> "returned"

\* One phase of run_correction_pipeline: the table it returns replaces df
\* and its events are logged; an exception ends the run.
Phase(here, result) ==
    /\ pc = here
    /\ \E res \in {result} :
          /\ df' = res.df
          /\ logger' = LogAll(logger, res.events)
          /\ accepted' = accepted \o AcceptedOf(res.events)
          /\ raised' = (\E i \in 1..Len(res.events) : LogRaises(res.events[i]))
    /\ pc' = IF raised' THEN "raised" ELSE NextPhase(here)
    /\ UNCHANGED <<afterClose, closes, run, policy, input, out1, profile, scored>>

\* pipeline.py:39
Standardization ==
    /\ Phase("standardization", ApplyStandardization(df, policy))
    /\ CopyFirst          \* standardize.py:174
    /\ UNCHANGED iterOrder
\* pipeline.py:42
Parsing ==
    /\ pc = "parsing"
    /\ \E st \in {ParsedInPlace(df, RowIds(df), policy)} :
        /\ Phase("parsing", DropFailedRows(RowIds(df), st))
        /\ Alias(st.df, st.drop = {})          \* parsing.py:369, 383
        /\ UNCHANGED iterOrder
\* re.compile, which Series.str.match calls before it looks at any value
\* (validity.py:117): an unclosed group is not a regular expression.
Compiles(pattern) == pattern # "("
\* The regex rules that apply_validity reaches and cannot compile.
Uncompiled(pol) ==
    {j \in 1..Len(pol.regex) :
        pol.regex[j].col \in ColSet /\ ~Compiles(pol.regex[j].pattern)}
\* pipeline.py:46
Validity ==
    /\ pc = "validity"
    /\ ~(policy.validity_enabled /\ Uncompiled(policy) # {})
    /\ \E order \in OrdersOf(policy.non_negative) :
        \E s4 \in {IF policy.validity_enabled THEN CheckedInPlace(df, policy, order)
                    ELSE [df |-> df, events |-> <<>>, drop |-> {}]} :
            /\ Phase("validity", DropViolating(df, policy, s4))
            /\ Alias(s4.df, s4.drop = {})          \* validity.py:28-29, 131, 142
            /\ iterOrder' = order
\* pipeline.py:46 when str.match raises (validity.py:117): the rules before
\* the one that does not compile have run and logged their events, the
\* exception leaves run_correction_pipeline, and nothing is returned.
ValidityRaises ==
    /\ pc = "validity"
    /\ policy.validity_enabled /\ Uncompiled(policy) # {}
    /\ \E order \in OrdersOf(policy.non_negative) :
        \E first \in {j \in Uncompiled(policy) : \A k \in Uncompiled(policy) : j <= k} :
        \E s4 \in {CheckedInPlace(df, [policy EXCEPT !.regex = SubSeq(@, 1, first - 1)],
                                  order)} :
            /\ logger' = LogAll(logger, s4.events)
            /\ accepted' = accepted \o AcceptedOf(s4.events)
            /\ Alias(s4.df, TRUE)
            /\ iterOrder' = order
    /\ raised' = TRUE
    /\ pc' = "raised"
    /\ UNCHANGED <<afterClose, closes, run, policy, input, df, out1, profile, scored>>
\* pipeline.py:49
DropCritical ==
    /\ Phase("drop_critical_missing", DropCriticalMissing(df, policy))
    /\ Alias(df, \/ ~policy.missing_enabled           \* missing.py:45-51, 82
                 \/ ~policy.drop_if_missing_critical
                 \/ policy.critical = {})
    /\ UNCHANGED iterOrder
\* pipeline.py:52-54
Imputation ==
    /\ Phase("imputation", ApplyImputation(df, policy))
    /\ IF ~policy.missing_enabled \/ DOMAIN policy.imputation = {}
       THEN Alias(df, TRUE)          \* missing.py:100-105
       ELSE CopyFirst                \* missing.py:108
    /\ UNCHANGED iterOrder

\* cli.py: the caller closes the logger in a finally clause
CallerClose ==
    /\ pc \in {"returned", "raised"}
    /\ logger' = LoggerClose(logger)
    /\ closes' = closes + 1
    /\ pc' = "closed"
    /\ UNCHANGED <<accepted, raised, afterClose, run, policy, input, df, out1, iterOrder,
                   caller, shared, passed, profile, scored>>

Next ==
    \/ Standardization
    \/ Parsing
    \/ Validity
    \/ ValidityRaises
    \/ DropCritical
    \/ Imputation
    \/ CallerClose

Spec == Init /\ [][Next]_vars

\* The caller runs the pipeline again, with the same policy and clock and a
\* new logger, on the table the first run returned.
Rerun ==
    /\ pc = "closed"
    /\ run = 1
    /\ ~raised
    /\ run' = 2
    /\ out1' = df
    /\ logger' = NewLogger("detailed")
    /\ accepted' = <<>>
    /\ closes' = 0
    /\ pc' = "standardization"
    /\ caller' = df
    /\ shared' = DataFrameCopy(TRUE)          \* pipeline.py:36
    /\ passed' = NoTable
    /\ UNCHANGED <<raised, afterClose, policy, input, df, iterOrder, profile, scored>>

RerunNext == Next \/ Rerun
RerunSpec == Init /\ [][RerunNext]_vars

(***************************************************************************)
(* Properties of the pipeline (checked under Spec and RerunSpec).         *)
(***************************************************************************)
\* The row of the caller's table that a row of the working table comes from.
InputRow(row) == input.rows[row[Index].n + 1]
Survives(i) == \E k \in 1..Len(df.rows) : df.rows[k][Index] = input.rows[i][Index]
EventsOfType(etype) ==
    LET Is(e) == e.event_type = etype IN SelectSeq(accepted, Is)

\* C1: when the pipeline has returned, every cell of a protected column in a
\* surviving row equals the input cell, and no audit event names a protected
\* column.
C1_ProtectedUntouched ==
    pc = "returned" =>
        \A c \in policy.protected :
            /\ \A k \in 1..Len(df.rows) : df.rows[k][c] = InputRow(df.rows[k])[c]
            /\ \A j \in 1..Len(accepted) : accepted[j].column # c

\* The table tbl and the events log are what the five phases give when
\* composed in the order standardization, parsing, validity enforcement,
\* critical-missing drop, imputation.
ComposedIs(tbl, log) ==
    \E r1 \in {ApplyStandardization(input, policy)} :
    \E r2 \in {ApplyParsing(r1.df, policy)} :
    \E r3 \in {ApplyValidity(r2.df, policy, iterOrder)} :
    \E r4 \in {DropCriticalMissing(r3.df, policy)} :
    \E r5 \in {ApplyImputation(r4.df, policy)} :
        /\ tbl = r5.df
        /\ log = r1.events \o r2.events \o r3.events \o r4.events \o r5.events

\* C2: the returned table and the logged events are those of the five phases
\* applied once each, in order, each to the whole output of the one before.
\* So a cell "High" mapped to "3" in a numeric column ends as 3.0, and mean
\* imputation of ["10", "20", "null"] fills 15.0.
C2_PhaseOrder ==
    pc = "returned" =>
        /\ ComposedIs(df, accepted)
        /\ (/\ policy.mappings = HighTo3
            /\ "a" \in DOMAIN policy.column_types
            /\ policy.column_types["a"] = "numeric"
            /\ "a" \notin policy.protected)
           => \A k \in 1..Len(df.rows) :
                 InputRow(df.rows[k])["a"] = RowKinds[4].a => df.rows[k]["a"] = Num(3, 1)
        /\ (/\ input = TableOf({1, 2, 3})
            /\ policy = PolicyOf(<<1, 1, 2, 1, 4>>))
           => /\ Column(df, "a") = <<Num(10, 1), Num(20, 1), Num(15, 1)>>
              /\ Len(EventsOfType("imputation_fill")) = 1

C2_Witness ==
    /\ pc = "returned"
    /\ input = TableOf({1, 2, 3})
    /\ policy = PolicyOf(<<1, 1, 2, 1, 4>>)
    /\ Column(df, "a") = <<Num(10, 1), Num(20, 1), Num(15, 1)>>
    /\ \E j \in 1..Len(accepted) :
          /\ accepted[j].event_type = "imputation_fill"
          /\ accepted[j].new_value = ReprOf(15, 1)
          /\ accepted[j].row_id = IntV(3)

\* C3: after the pipeline has run a second time on its own output, the table
\* is the first run's output and the second footer counts no event.
C3_Idempotent ==
    (run = 2 /\ pc = "closed") =>
        /\ df = out1
        /\ logger.file[Len(logger.file)].total_events = 0

\* C4: every row of the returned table carries the _row_id of the input row
\* it comes from (the integer 1 and the float 1.0 taken as the same id), and
\* the rows are in the input's order.
C4_RowIdStable ==
    pc = "returned" =>
        /\ \A k \in 1..Len(df.rows) :
              /\ IsNumber(df.rows[k]["_row_id"])
              /\ NumEq(df.rows[k]["_row_id"], InputRow(df.rows[k])["_row_id"])
        /\ \A k, l \in 1..Len(df.rows) :
              k < l => df.rows[k][Index].n < df.rows[l][Index].n

\* C5: every input row that is not in the returned table has a row_dropped
\* event carrying its _row_id (1 and 1.0 taken as the same id), and no
\* surviving row's _row_id is in one.
C5_DroppedRowsAudited ==
    pc = "returned" =>
        \A i \in 1..Len(input.rows) :
            LET named == \E j \in 1..Len(accepted) :
                            /\ accepted[j].event_type = "row_dropped"
                            /\ IsNumber(accepted[j].row_id)
                            /\ NumEq(accepted[j].row_id, input.rows[i]["_row_id"])
            IN Survives(i) <=> ~named

(***************************************************************************)
(* Properties of single phases, stated on the step that runs the phase:   *)
(* df is the table the phase receives, df' the table it returns, and      *)
(* NewEvents the events it logs.                                           *)
(***************************************************************************)
NewEvents == SubSeq(accepted', Len(accepted) + 1, Len(accepted'))
Ran(phase) == pc = phase /\ pc' # phase
EventsOn(events, etype, col) ==
    LET Is(e) == e.event_type = etype /\ e.column = col IN SelectSeq(events, Is)
ColsOf(cols) == {cols[i] : i \in 1..Len(cols)}
MissingCount(tbl, col) ==
    Cardinality({i \in 1..Len(tbl.rows) : IsEffectivelyMissing(tbl.rows[i][col])})
ConfiguredBuckets(pol) ==
    IF ~pol.missing_enabled THEN {}
    ELSE {b \in DOMAIN pol.imputation :
            ~(pol.imputation[b].default = "none"
              /\ DOMAIN pol.imputation[b].constants = {})}

\* C13: in apply_imputation a column of a configured bucket whose share of
\* effectively-missing cells is strictly greater than the bucket's ceiling
\* keeps every cell (also when a constant is configured for it) and gets
\* exactly one imputation_skipped_threshold event, whose reason gives the
\* share and the ceiling to four decimals (0.5000 and 0.2500 for one half
\* against one quarter); a column at or below the ceiling gets no such event.
C13_ThresholdGate ==
    [][Ran("imputation") =>
          \A b \in ConfiguredBuckets(policy) :
             \A c \in ColsOf(BucketCols(df, policy, b)) :
                LET n == Len(df.rows)
                    k == MissingCount(df, c)
                    thr == policy.imputation[b].threshold
                    skips == EventsOn(NewEvents, "imputation_skipped_threshold", c)
                IN IF k > 0 /\ k * thr.d > thr.n * n
                   THEN /\ Column(df', c) = Column(df, c)
                        /\ Len(skips) = 1
                        /\ skips[1].reason.args = <<Fmt4(Norm(k, n)), Fmt4(thr)>>
                        /\ (2 * k = n /\ thr = Num(1, 4)) =>
                              skips[1].reason.args = <<5000, 2500>>
                   ELSE skips = <<>>]_vars

C13_Witness ==
    /\ pc = "returned"
    /\ "categorical" \in DOMAIN policy.imputation
    /\ "b" \in DOMAIN policy.imputation["categorical"].constants
    /\ \E i \in 1..Len(accepted) :
          /\ accepted[i].event_type = "imputation_skipped_threshold"
          /\ accepted[i].column = "b"
    /\ \E k \in 1..Len(df.rows) : df.rows[k]["b"] = Null

\* C14: run_correction_pipeline never changes the table it is called with:
\* in every state of a run, returned or raised included, the caller's table
\* holds what it held at the call.
C14_CallerTableUntouched == run = 1 => caller = input

C14_Witness == pc = "returned" /\ df # input /\ caller = input /\ accepted # <<>>

\* The table tbl and the events log are what the five phases give when the
\* set non_negative_columns is iterated in the given order.
ComposedWith(order, tbl, log) ==
    \E r1 \in {ApplyStandardization(input, policy)} :
    \E r2 \in {ApplyParsing(r1.df, policy)} :
    \E r3 \in {ApplyValidity(r2.df, policy, order)} :
    \E r4 \in {DropCriticalMissing(r3.df, policy)} :
    \E r5 \in {ApplyImputation(r4.df, policy)} :
        /\ tbl = r5.df
        /\ log = r1.events \o r2.events \o r3.events \o r4.events \o r5.events

\* C15: with the input table, the policy and the clock fixed, the returned
\* table and the sequence of logged events are the same whatever the order
\* in which the set of non_negative_columns is iterated.
C15_Deterministic ==
    pc = "returned" =>
        \A order \in OrdersOf(policy.non_negative) \ {iterOrder} :
            ComposedWith(order, df, accepted)

(***************************************************************************)
(* Properties of apply_parsing, stated on the parsing step: a cell is a   *)
(* row position i of df and a column c.                                    *)
(***************************************************************************)
\* The type a column is parsed as, "none" when it is not parsed.
ParsedKind(pol, c) ==
    IF c \notin DOMAIN pol.column_types \/ c \in pol.protected THEN "none"
    ELSE CASE pol.column_types[c] = "boolean" -> "boolean"
           [] pol.column_types[c] \in {"numeric", "integer", "float"} -> "numeric"
           [] pol.column_types[c] \in {"datetime", "date", "timestamp"} -> "datetime"
           [] OTHER -> "none"
ParsedCells ==
    {cell \in (1..Len(df.rows)) \X ColSet : ParsedKind(policy, cell[2]) # "none"}
MissingCells == {cell \in ParsedCells : IsEffectivelyMissing(df.rows[cell[1]][cell[2]])}
FailingCells ==
    {cell \in ParsedCells \ MissingCells :
        ~Converted(df.rows[cell[1]][cell[2]], policy, ParsedKind(policy, cell[2])).ok}
ModeOfCell(cell) == OnFailure(policy, ParsedKind(policy, cell[2]))
\* The rows with a cell that fails under drop_row.
Marked == {cell[1] : cell \in {x \in FailingCells : ModeOfCell(x) = "drop_row"}}
\* The positions in df' of the row at position i of df.
RowsAfter(i) == {k \in 1..Len(df'.rows) : df'.rows[k][Index] = df.rows[i][Index]}
EventsAbout(events, etype, rid) ==
    LET Is(e) == e.event_type = etype /\ e.row_id = rid IN SelectSeq(events, Is)
FailureEventsOf(cell) ==
    LET Is(e) == /\ e.event_type = "parsing_failure"
                 /\ e.column = cell[2]
                 /\ e.row_id = df.rows[cell[1]]["_row_id"]
    IN SelectSeq(NewEvents, Is)

C19_MissingBypass ==
    [][Ran("parsing") =>
          \E marked \in {Marked} : \A cell \in MissingCells :
             /\ FailureEventsOf(cell) = <<>>
             /\ cell[1] \notin marked => Cardinality(RowsAfter(cell[1])) = 1
             /\ \A k \in RowsAfter(cell[1]) : df'.rows[k][cell[2]] = Null]_vars

\* The rows of df with an effectively-missing value in a critical column.
CriticalHits ==
    {i \in 1..Len(df.rows) :
        \E c \in policy.critical \cap ColSet : IsEffectivelyMissing(df.rows[i][c])}

C20_ProtectedAndCriticalNotFilled ==
    [][Ran("imputation") =>
          \A c \in (policy.protected \cup policy.critical) \cap ColSet :
             /\ Column(df', c) = Column(df, c)
             /\ \A j \in 1..Len(NewEvents) : NewEvents[j].column # c]_vars

(***************************************************************************)
(* Properties of apply_validity, stated on the validity step.             *)
(***************************************************************************)
\* The cell at row position i, column c of df violates a rule of the policy.
Violates(i, c) ==
    LET v == df.rows[i][c]
        numeric == IsNumericDtype(df.dtype[c]) /\ IsNumber(v)
    IN \/ c \in policy.non_negative /\ numeric /\ NumLt(v, IntV(0))
       \/ \E j \in 1..Len(policy.ranges) :
             /\ policy.ranges[j].col = c
             /\ numeric
             /\ \/ policy.ranges[j].min # Null /\ NumLt(v, policy.ranges[j].min)
                \/ policy.ranges[j].max # Null /\ NumLt(policy.ranges[j].max, v)
       \/ \E j \in 1..Len(policy.allowed_values) :
             /\ policy.allowed_values[j].col = c
             /\ v # Null
             /\ ~IsIn(v, policy.allowed_values[j].allowed)
       \/ \E j \in 1..Len(policy.regex) :
             /\ policy.regex[j].col = c
             /\ v # Null
             /\ ~RegexMatch(policy.regex[j].pattern, PyStr(v))
\* Equal as values: an integer and the float it is widened to are the same.
SameValue(v, w) == v = w \/ (IsNumber(v) /\ IsNumber(w) /\ v.n * w.d = w.n * v.d)

\* C21: apply_validity acts as on_violation says.  Under flag it returns the
\* table it was given.  Under null it returns the same rows with exactly the
\* violating cells nulled.  Under drop_row it returns, unchanged, exactly the
\* rows none of whose cells violates a rule, each rule being judged on the
\* table as given.
C21_ViolationAction ==
    [][(Ran("validity") /\ policy.validity_enabled) =>
          CASE policy.on_violation = "flag" -> df' = df
            [] policy.on_violation = "null" ->
                 /\ Len(df'.rows) = Len(df.rows)
                 /\ \A i \in 1..Len(df.rows) :
                       /\ df'.rows[i][Index] = df.rows[i][Index]
                       /\ \A c \in ColSet :
                             IF Violates(i, c) THEN df'.rows[i][c] = Null
                             ELSE SameValue(df'.rows[i][c], df.rows[i][c])
            [] policy.on_violation = "drop_row" ->
                 LET Clean(row) ==
                       \A i \in 1..Len(df.rows) :
                          df.rows[i] = row => \A c \in ColSet : ~Violates(i, c)
                 IN df' = [df EXCEPT !.rows = SelectSeq(df.rows, Clean)]
            [] OTHER -> FALSE]_vars

C21_Witness ==
    /\ pc = "drop_critical_missing"
    /\ policy.on_violation = "drop_row"
    /\ policy.regex # <<>>
    /\ policy.ranges # <<>>
    /\ Len(input.rows) = 3
    /\ Len(df.rows) = 1
    /\ Len(EventsOfType("validity_drop_row")) >= 3
    /\ Len(EventsOfType("validity_drop")) = 1

\* C26: no phase changes the table object it is given: when a phase has
\* returned, the object it was called with holds what it held at the call.
C26_PhasesLeaveArgument ==
    [][(\E phase \in {"standardization", "parsing", "validity",
                       "drop_critical_missing", "imputation"} : Ran(phase))
          => passed' = df]_vars

\* C25: with a clock passed to the pipeline, the timestamp of every logged
\* event is the clock's value, and so are the logger's start and end
\* timestamps, which the footer reports.
C25_ClockTimestamps ==
    /\ \A j \in 1..Len(accepted) : accepted[j].timestamp = Clock
    /\ accepted # <<>> =>
          /\ logger.timestamp_start = Clock
          /\ logger.timestamp_end = Clock

\* C22: once a phase has raised, no later phase runs and no table is
\* returned (the run stays ended), and the audit file of that run never
\* holds a job_summary footer.
C22_RaiseIsFatal ==
    raised =>
        /\ pc \in {"raised", "closed"}
        /\ \A j \in 1..Len(logger.file) : logger.file[j].type # "job_summary"

(***************************************************************************)
(* ScoreSpec: calculate_readiness_score (scoring/readiness.py) applied to *)
(* a bounded family of profiles.  Ratios and scores are exact rationals.  *)
(***************************************************************************)
MaxCols == 2         \* columns of a profile

RatSub(v, w) == Norm(v.n * w.d - w.n * v.d, v.d * w.d)
RatMul(v, w) == Norm(v.n * w.n, v.d * w.d)
RatDiv(v, w) == Norm(v.n * w.d, v.d * w.n)
\* round(x, 2) for x >= 0: the nearest hundredth, a tie going to the even one
Round2(v) ==
    LET q == (200 * v.n + v.d) \div (2 * v.d)
        tie == (200 * v.n + v.d) % (2 * v.d) = 0
    IN Norm(IF tie /\ q % 2 = 1 THEN q - 1 ELSE q, 100)

\* readiness.py:33-41, the loop's two accumulators after the columns in cols
RECURSIVE CompWeightedSum(_)
CompWeightedSum(cols) ==
    IF cols = <<>> THEN Num(0, 1)
    ELSE LET stats == cols[Len(cols)]
             weight == IF stats.role = "critical" THEN Num(2, 1) ELSE Num(1, 1)
             success_rate == RatSub(Num(1, 1), stats.effective_missing_pct)
         IN RatAdd(CompWeightedSum(SubSeq(cols, 1, Len(cols) - 1)),
                   RatMul(success_rate, weight))
RECURSIVE CompTotalWeight(_)
CompTotalWeight(cols) ==
    IF cols = <<>> THEN 0
    ELSE CompTotalWeight(Tail(cols)) + (IF Head(cols).role = "critical" THEN 2 ELSE 1)
CompletenessScore(cols) ==
    IF CompTotalWeight(cols) > 0
    THEN RatDiv(CompWeightedSum(cols), Num(CompTotalWeight(cols), 1))
    ELSE Num(1, 1)

\* Variant of the validity component in which a column without a target
\* type counts as a column none of whose values is valid.
ValidityScoreCountsUntyped(cols) ==
    LET Typed(stats) == stats.invalid_type_pct # Null
        typed == SelectSeq(cols, Typed)
    IN IF cols = <<>> THEN Num(1, 1)
       ELSE RatDiv(SumSeq([i \in 1..Len(typed) |-> RatSub(Num(1, 1), typed[i].invalid_type_pct)]),
                   Num(Len(cols), 1))
\* readiness.py:45-52
ValidityScore(cols) ==
    LET Typed(stats) == stats.invalid_type_pct # Null
        typed == SelectSeq(cols, Typed)
    IN IF typed = <<>> THEN Num(1, 1)
       ELSE RatDiv(SumSeq([i \in 1..Len(typed) |-> RatSub(Num(1, 1), typed[i].invalid_type_pct)]),
                   Num(Len(typed), 1))

\* readiness.py:56-64
UniquenessScore(p) ==
    LET exact_dupe_pct == Norm(p.exact_row_dupe_count, p.row_count)
        pk_dupe_pct == Norm(p.pk_dupe_count.n, p.row_count)
    IN IF p.pk_dupe_count # Null
       THEN RatSub(Num(1, 1), IF NumLt(exact_dupe_pct, pk_dupe_pct)
                              THEN pk_dupe_pct ELSE exact_dupe_pct)
       ELSE RatSub(Num(1, 1), exact_dupe_pct)

\* readiness.py:68-70
ConsistencyScore(cols) ==
    LET mixed_count == Cardinality({i \in 1..Len(cols) : cols[i].is_mixed_type})
    IN IF Len(cols) > 0 THEN RatSub(Num(1, 1), Norm(mixed_count, Len(cols)))
       ELSE Num(1, 1)

\* Variant of the penalty test that looks at every column, critical or not.
HasAnyIssue(cols) ==
    \E i \in 1..Len(cols) :
        \/ NumLt(Num(0, 1), cols[i].effective_missing_pct)
        \/ /\ cols[i].invalid_type_pct # Null
           /\ NumLt(Num(0, 1), cols[i].invalid_type_pct)
\* readiness.py:82-90
HasCriticalIssue(cols) ==
    \E i \in 1..Len(cols) :
        /\ cols[i].role = "critical"
        /\ \/ NumLt(Num(0, 1), cols[i].effective_missing_pct)
           \/ /\ cols[i].invalid_type_pct # Null
              /\ NumLt(Num(0, 1), cols[i].invalid_type_pct)

Breakdown(c, v, u, k) ==
    [completeness |-> c, validity |-> v, uniqueness |-> u, consistency |-> k]
\* readiness.py:73-106  the weighting, the penalty, the bounds and the rounding
WeightedResult(cols, c, v, u, k) ==
    LET weighted == RatAdd(RatAdd(c, v), RatAdd(u, k))
        final_score == IF HasCriticalIssue(cols) THEN RatSub(weighted, Num(10, 1))
                       ELSE weighted
        bounded == IF NumLt(final_score, Num(0, 1)) THEN Num(0, 1)
                   ELSE IF NumLt(Num(100, 1), final_score) THEN Num(100, 1)
                   ELSE final_score
    IN [score |-> Round2(bounded),
        breakdown |-> Breakdown(Round2(c), Round2(v), Round2(u), Round2(k))]
\* readiness.py:6-106
CalculateReadinessScore(p) ==
    IF p.row_count = 0
    THEN [score |-> Num(0, 1),
          breakdown |-> Breakdown(Num(0, 1), Num(0, 1), Num(0, 1), Num(0, 1))]
    ELSE WeightedResult(p.columns,
                        RatMul(CompletenessScore(p.columns), Num(40, 1)),
                        RatMul(ValidityScore(p.columns), Num(30, 1)),
                        RatMul(UniquenessScore(p), Num(20, 1)),
                        RatMul(ConsistencyScore(p.columns), Num(10, 1)))

\* The statistics of one column, as create_profile reports them; a column
\* without a target type has no invalid_type_pct.
ColumnStats ==
    {st \in [role : {"critical", "none"},
             effective_missing_pct : {Num(0, 1), Num(1, 100), Num(1, 2)},
             invalid_type_pct : {Null, Num(0, 1), Num(1, 2)},
             is_mixed_type : BOOLEAN] :
        st.is_mixed_type => /\ st.effective_missing_pct = Num(0, 1)
                            /\ st.invalid_type_pct = Null}
ColumnLists == UNION {[1..n -> ColumnStats] : n \in 0..MaxCols}
Profiles ==
    {pr \in [row_count : {0, 100}, exact_row_dupe_count : {0, 10},
             pk_dupe_count : {Null, IntV(0), IntV(20)}, columns : ColumnLists] :
        /\ pr.exact_row_dupe_count <= pr.row_count
        /\ pr.pk_dupe_count # Null => pr.pk_dupe_count.n <= pr.row_count}

ScoreInit ==
    /\ logger = NewLogger("detailed")
    /\ accepted = <<>>
    /\ raised = FALSE
    /\ afterClose = 0
    /\ closes = 0
    /\ pc = "score"
    /\ run = 0
    /\ policy = <<>>
    /\ input = <<>>
    /\ df = <<>>
    /\ out1 = <<>>
    /\ caller = <<>>
    /\ shared = FALSE
    /\ passed = <<>>
    /\ iterOrder = <<>>
    /\ profile \in Profiles
    /\ scored = <<>>
Score ==
    /\ pc = "score"
    /\ scored' = CalculateReadinessScore(profile)
    /\ pc' = "scored"
    /\ UNCHANGED <<logger, accepted, raised, afterClose, closes, run, policy, input, df,
                   out1, iterOrder, caller, shared, passed, profile>>
ScoreSpec == ScoreInit /\ [][Score]_vars

\* A profile without fault: no missing and no invalid value in any column,
\* no duplicate of either kind, no mixed-type column.
Faultless(p) ==
    /\ \A i \in 1..Len(p.columns) :
          /\ p.columns[i].effective_missing_pct = Num(0, 1)
          /\ p.columns[i].invalid_type_pct \in {Null, Num(0, 1)}
          /\ ~p.columns[i].is_mixed_type
    /\ p.exact_row_dupe_count = 0
    /\ p.pk_dupe_count \in {Null, IntV(0)}
FullMarks ==
    [score |-> Num(100, 1),
     breakdown |-> Breakdown(Num(40, 1), Num(30, 1), Num(20, 1), Num(10, 1))]

\* C23 as stated: for every profile without fault, the score is 100.0 and
\* the breakdown 40.0, 30.0, 20.0, 10.0.
C23_FaultlessAlwaysFull ==
    (pc = "scored" /\ Faultless(profile)) => scored = FullMarks
\* C23: for every profile without fault that counts at least one row, the
\* score is 100.0 and the breakdown 40.0, 30.0, 20.0, 10.0; when it counts no
\* row, the score and the four components are 0.0.
C23_FaultlessFull ==
    (pc = "scored" /\ Faultless(profile)) =>
        IF profile.row_count > 0 THEN scored = FullMarks
        ELSE /\ scored.score = Num(0, 1)
             /\ scored.breakdown = Breakdown(Num(0, 1), Num(0, 1), Num(0, 1), Num(0, 1))
C23_Witness ==
    /\ pc = "scored" /\ Faultless(profile) /\ profile.row_count = 100
    /\ Len(profile.columns) = 2
    /\ profile.columns[1].role = "critical" /\ profile.columns[1].invalid_type_pct = Num(0, 1)
    /\ profile.columns[2].invalid_type_pct = Null
    /\ scored = FullMarks

\* The four components as the rubric defines them, each a ratio in [0, 1]:
\* the mean of a set of no column is 1.
Weight(stats) == IF stats.role = "critical" THEN 2 ELSE 1
RubricCompleteness(cols) ==
    LET total == SumSeq([i \in 1..Len(cols) |-> Num(Weight(cols[i]), 1)])
        kept == SumSeq([i \in 1..Len(cols) |->
                          Norm(Weight(cols[i]) * (cols[i].effective_missing_pct.d
                                                  - cols[i].effective_missing_pct.n),
                               cols[i].effective_missing_pct.d)])
    IN IF cols = <<>> THEN Num(1, 1) ELSE Norm(kept.n * total.d, kept.d * total.n)
RubricValidity(cols) ==
    LET T == {i \in 1..Len(cols) : cols[i].invalid_type_pct # Null}
        invalid == SumSeq([i \in 1..Len(cols) |->
                             IF i \in T THEN cols[i].invalid_type_pct ELSE Num(0, 1)])
    IN IF T = {} THEN Num(1, 1)
       ELSE Norm(Cardinality(T) * invalid.d - invalid.n, Cardinality(T) * invalid.d)
RubricUniqueness(p) ==
    LET pk == IF p.pk_dupe_count = Null THEN 0 ELSE p.pk_dupe_count.n
        worst == IF pk > p.exact_row_dupe_count THEN pk ELSE p.exact_row_dupe_count
    IN Norm(p.row_count - worst, p.row_count)
RubricConsistency(cols) ==
    IF cols = <<>> THEN Num(1, 1)
    ELSE Norm(Cardinality({i \in 1..Len(cols) : ~cols[i].is_mixed_type}), Len(cols))
\* 40, 30, 20 and 10 times the components, w[5] being the penalty
RubricPoints(w) ==
    Norm(  40 * w[1].n * w[2].d * w[3].d * w[4].d + 30 * w[2].n * w[1].d * w[3].d * w[4].d
         + 20 * w[3].n * w[1].d * w[2].d * w[4].d + 10 * w[4].n * w[1].d * w[2].d * w[3].d
         - w[5] * w[1].d * w[2].d * w[3].d * w[4].d,
         w[1].d * w[2].d * w[3].d * w[4].d)
CriticalFault(p) ==
    \E i \in 1..Len(p.columns) :
        /\ p.columns[i].role = "critical"
        /\ \/ p.columns[i].effective_missing_pct # Num(0, 1)
           \/ p.columns[i].invalid_type_pct \notin {Null, Num(0, 1)}
Clamped(v) ==
    IF v.n < 0 THEN Num(0, 1) ELSE IF v.n > 100 * v.d THEN Num(100, 1) ELSE v

MaxLen == 3          \* characters of the text in column a

Alphabet == {" ", "<NUL>", "A", "b"}
Texts == UNION {[1..n -> Alphabet] : n \in 0..MaxLen}
TextTable(cs) ==
    [dtype |-> [c \in ColSet |-> IF c = "_row_id" THEN "int64" ELSE "object"],
     rows |-> << [c \in ColSet \cup {Index} |->
                    CASE c = "_row_id" -> IntV(1)
                      [] c = Index -> IntV(0)
                      [] c = "a" -> Str(cs)
                      [] OTHER -> Str(<<"A", "b">>)] >>]
AbToZ ==
    << [col |-> "a", map |-> (<<"a", "b">> :> <<"z">>)],
       [col |-> "b", map |-> (<<"a", "b">> :> <<"z">>)] >>
StdPolicies ==
    {[DefaultPolicy EXCEPT !.strip_nonprinting = t[1], !.global_trim_whitespace = t[2],
                           !.global_collapse_whitespace = t[3], !.casefold = t[4],
                           !.mappings = t[5], !.protected = t[6]] :
        t \in BOOLEAN \X BOOLEAN \X BOOLEAN \X {"none", "lower", "upper"}
              \X {<<>>, AbToZ} \X {{}, {"a"}}}

StdInit ==
    /\ logger = NewLogger("detailed")
    /\ accepted = <<>>
    /\ raised = FALSE
    /\ afterClose = 0
    /\ closes = 0
    /\ pc = "standardize"
    /\ run = 0
    /\ policy \in StdPolicies
    /\ \E cs \in Texts : input = TextTable(cs)
    /\ df = input
    /\ out1 = <<>>
    /\ caller = <<>>
    /\ shared = FALSE
    /\ passed = <<>>
    /\ iterOrder = <<>>
    /\ profile = <<>>
    /\ scored = <<>>
\* apply_standardization(df.copy(), policy, audit=None)
Standardize ==
    /\ pc = "standardize"
    /\ df' = ApplyStandardization(df, policy).df
    /\ pc' = "standardized"
    /\ UNCHANGED <<logger, accepted, raised, afterClose, closes, run, policy, input,
                   out1, iterOrder, caller, shared, passed, profile, scored>>
StdSpec == StdInit /\ [][Standardize]_vars

\* The text v of column col after the enabled sub-steps, taken one after the
\* other in the stated order.
InOrder(col, v) ==
    LET v1 == IF policy.strip_nonprinting THEN StripNonprinting(v) ELSE v
        v2 == IF policy.global_trim_whitespace THEN Strip(v1) ELSE v1
        v3 == IF policy.global_collapse_whitespace THEN CollapseWs(v2) ELSE v2
        v4 == CASE policy.casefold = "lower" -> LowerStr(v3)
                [] policy.casefold = "upper" -> UpperStr(v3)
                [] OTHER -> v3
        M == {j \in 1..Len(policy.mappings) :
                policy.mappings[j].col = col /\ v4 \in DOMAIN policy.mappings[j].map}
    IN IF M = {} THEN v4 ELSE policy.mappings[CHOOSE j \in M : TRUE].map[v4]

\* C27: after apply_standardization, every text column that is not protected
\* holds the result of the enabled sub-steps applied in the order strip
\* non-printing, trim, collapse, case-fold, mapping, each to the result of
\* the one before; a protected column holds what it held.
C27_SubstepOrder ==
    pc = "standardized" =>
        \A c \in {"a", "b"} :
            df.rows[1][c] = IF c \in policy.protected THEN input.rows[1][c]
                            ELSE Str(InOrder(c, input.rows[1][c].s))
\* " \x00 " becomes "" under strip and trim, and "Ab" meets the key "ab"
\* once it is folded to lower case
C27_Witness ==
    /\ pc = "standardized"
    /\ input.rows[1]["a"] = Str(<<" ", "<NUL>", " ">>)
    /\ policy.strip_nonprinting /\ policy.global_trim_whitespace
    /\ ~policy.global_collapse_whitespace
    /\ policy.casefold = "lower" /\ policy.mappings = AbToZ /\ policy.protected = {}
    /\ df.rows[1]["a"] = Str(<<>>)
    /\ df.rows[1]["b"] = Str(<<"z">>)

\* The cells of df that the step changes.
ChangedCells ==
    {cell \in (1..Len(df.rows)) \X ColSet :
        df'.rows[cell[1]][cell[2]] # df.rows[cell[1]][cell[2]]}
\* The value the policy gives for a missing cell of column c: the constant
\* configured for c in its bucket, otherwise the bucket's default.
PolicyFill(c) ==
    LET b == CHOOSE x \in ConfiguredBuckets(policy) : c \in ColsOf(BucketCols(df, policy, x))
        cfg == policy.imputation[b]
        Present(v) == ~IsEffectivelyMissing(v)
    IN IF c \in DOMAIN cfg.constants THEN cfg.constants[c]
       ELSE CASE cfg.default = "mean" -> MeanOf(Column(df, c))
              [] cfg.default = "median" -> MedianOf(Column(df, c))
              [] cfg.default = "mode" -> ModeOf(SelectSeq(Column(df, c), Present))
              [] OTHER -> Null

\* C28: apply_imputation keeps the rows; every cell it changes has exactly
\* one imputation_fill event, which carries the row's _row_id, the column, the
\* old and the new value; there are as many imputation_fill events as changed
\* cells; and the new value is the column's constant when one is configured
\* and otherwise the bucket's default, which is not a null token.
C28_FillsAudited ==
    [][Ran("imputation") =>
          \E changed \in {ChangedCells} :
             LET IsFill(e) == e.event_type = "imputation_fill"
                 fills == SelectSeq(NewEvents, IsFill)
                 Of(cell) == {j \in 1..Len(fills) :
                                /\ fills[j].column = cell[2]
                                /\ fills[j].row_id = df.rows[cell[1]]["_row_id"]}
             IN /\ Len(df'.rows) = Len(df.rows)
                /\ Len(fills) = Cardinality(changed)
                /\ \A cell \in changed :
                      /\ Cardinality(Of(cell)) = 1
                      /\ \A j \in Of(cell) :
                            /\ fills[j].old_value = StrOrNone(df.rows[cell[1]][cell[2]])
                            /\ fills[j].new_value = PyStr(df'.rows[cell[1]][cell[2]])
                      /\ df'.rows[cell[1]][cell[2]] = PolicyFill(cell[2])
                      /\ ~IsEffectivelyMissing(df'.rows[cell[1]][cell[2]])]_vars
C28_Witness ==
    /\ pc = "returned"
    /\ Len(EventsOfType("imputation_fill")) = 2
    /\ EventsOfType("imputation_fill")[1].column = "a"
    /\ EventsOfType("imputation_fill")[1].reason = Reason("imputation_mode", <<>>)
    /\ EventsOfType("imputation_fill")[2].column = "b"
    /\ EventsOfType("imputation_fill")[2].reason = Reason("imputation_constant", <<>>)
    /\ EventsOfType("imputation_fill")[2].row_id = IntV(3)
    /\ \E i \in 1..Len(df.rows) : df.rows[i]["b"] = Str(<<"z">>) /\ df.rows[i][Index] # IntV(2)

(***************************************************************************)
(* build_correction_report (reporting/report.py): the actions and the     *)
(* protected-column status it computes from the lines of an audit file.   *)
(***************************************************************************)
TopColumns == 10

\* dict.get(key) of a line read back from the file: the event itself in
\* detailed mode (it has no "type" key), the aggregate in summary mode
LineGet(line, key) ==
    CASE line.type = "event" ->
            CASE key = "event_type" -> line.event.event_type
              [] key = "column" -> line.event.column
              [] key = "reason" -> line.event.reason
              [] OTHER -> Absent
      [] key = "event_type" -> line.event_type
      [] key = "column" -> line.column
      [] key = "reason" -> line.reason
      [] OTHER -> line.type
Truthy(v) == v \notin {Absent, None, ""}

\* Variant of the multiplier that counts an aggregate record once.
MultiplierOne(line) == 1
\* report.py:60-61
Multiplier(line) == IF line.type = "summary_aggregate" THEN line.count ELSE 1

\* collections.Counter: the keys in insertion order, and their counts
NoCounter == [order |-> <<>>, count |-> <<>>]
CounterAdd(counter, key, n) ==
    IF key \in DOMAIN counter.count
    THEN [counter EXCEPT !.count[key] = @ + n]
    ELSE [order |-> Append(counter.order, key),
          count |-> [k \in DOMAIN counter.count \cup {key} |->
                       IF k = key THEN n ELSE counter.count[k]]]

\* report.py:55-71  the loop over the records
RECURSIVE Tally(_, _)
Tally(lines, acc) ==
    IF lines = <<>> THEN acc
    ELSE LET e == Head(lines)
             mult == Multiplier(e)
             et == IF Truthy(LineGet(e, "event_type")) THEN LineGet(e, "event_type")
                   ELSE IF Truthy(LineGet(e, "type")) THEN LineGet(e, "type")
                   ELSE "unknown"
             col == LineGet(e, "column")
         IN IF e.type = "job_summary" THEN Tally(Tail(lines), acc)
            ELSE Tally(Tail(lines),
                       [action_counts |-> CounterAdd(acc.action_counts, et, mult),
                        column_counts |->
                            IF Truthy(col) /\ col # "__row__"
                            THEN CounterAdd(acc.column_counts, col, mult)
                            ELSE acc.column_counts,
                        row_drop_reasons |->
                            IF LineGet(e, "event_type") = "row_dropped"
                            THEN CounterAdd(acc.row_drop_reasons, LineGet(e, "reason"), mult)
                            ELSE acc.row_drop_reasons])

\* Counter.most_common(n): by count, largest first, ties in insertion order
RECURSIVE MostCommon(_, _, _)
MostCommon(order, count, n) ==
    IF order = <<>> \/ n = 0 THEN <<>>
    ELSE LET best == CHOOSE i \in 1..Len(order) :
                        /\ \A j \in 1..Len(order) : count[order[j]] <= count[order[i]]
                        /\ \A j \in 1..(i - 1) : count[order[j]] < count[order[i]]
             rest == [j \in 1..(Len(order) - 1) |->
                        IF j < best THEN order[j] ELSE order[j + 1]]
         IN <<[column |-> order[best], count |-> count[order[best]]]>>
            \o MostCommon(rest, count, n - 1)

\* report.py:49-94, 157-164  actions and compliance.protected_columns.status
BuildCorrectionReport(lines, protected) ==
    LET t == Tally(lines, [action_counts |-> NoCounter, column_counts |-> NoCounter,
                           row_drop_reasons |-> NoCounter])
        reasons == t.row_drop_reasons.count
        protected_hits == {i \in 1..Len(lines) :
                             /\ lines[i].type # "job_summary"
                             /\ LineGet(lines[i], "column") \in protected}
    IN [event_counts |-> t.action_counts.count,
        top_impacted_columns |-> MostCommon(t.column_counts.order, t.column_counts.count,
                                            TopColumns),
        row_drops |-> [total |-> SumCounts(reasons, DOMAIN reasons),
                       by_reason |-> reasons],
        status |-> IF protected_hits = {} THEN "pass" ELSE "fail"]

\* The file a logger of the given mode holds once the accepted events have
\* been logged and it is closed.
StreamOf(detail) == LoggerClose(LogAll(NewLogger(detail), accepted)).file
Entries(seq) == {seq[i] : i \in 1..Len(seq)}

\* C29: when the logger is closed, the report built from its file and the
\* report built from the file a logger of the other mode writes for the same
\* accepted events have the same event counts, the same count for each
\* impacted column, the same row drops (total and by reason) and the same
\* protected-column status, whatever columns are protected.
C29_ReportSameInBothModes ==
    (~logger.opened /\ afterClose = 0) =>
        \E other \in {StreamOf(IF logger.detail = "summary" THEN "detailed" ELSE "summary")} :
        \A protected \in SUBSET {"b"} :
        \E r1 \in {BuildCorrectionReport(logger.file, protected)} :
        \E r2 \in {BuildCorrectionReport(other, protected)} :
            /\ r1.event_counts = r2.event_counts
            /\ Entries(r1.top_impacted_columns) = Entries(r2.top_impacted_columns)
            /\ r1.row_drops = r2.row_drops
            /\ r1.status = r2.status
C29_Witness ==
    /\ ~logger.opened /\ afterClose = 0 /\ logger.detail = "summary"
    /\ Len(accepted) = 4
    /\ accepted[1] = EvRowDropped /\ accepted[2] = EvTrim1 /\ accepted[4] = EvTrim1
    /\ Len(logger.file) = 3
    /\ BuildCorrectionReport(logger.file, {"b"}).event_counts["standardization_change"] = 3
    /\ BuildCorrectionReport(logger.file, {"b"}).row_drops.total = 1
    /\ BuildCorrectionReport(logger.file, {"b"}).status = "fail"
====
